---- MODULE Spec2Model ----
(***************************************************************************)
(* A model of the server side of Go-Websocket: one connection (type Conn)  *)
(* with its three goroutines (router, sendLoop, sendMessageLoop), the      *)
(* application that uses Conn.In, Conn.Out and Conn.Close, and the peer.   *)
(*                                                                         *)
(* Go semantics the model relies on:                                       *)
(*   - close of a closed channel and send on a closed channel panic; a     *)
(*     panic in any goroutine ends the process (variable panic);           *)
(*   - io.Pipe is synchronous: a Write returns when the reader has taken   *)
(*     the bytes, or with ErrClosedPipe when the pipe is closed;           *)
(*   - bufio.Writer keeps bytes until Flush and keeps its first error;     *)
(*   - bufio.Reader fills its buffer with whatever the underlying reader   *)
(*     returns, so a bufio.Reader that is dropped takes the bytes it read  *)
(*     ahead with it.                                                      *)
(***************************************************************************)
EXTENDS Integers, Sequences, FiniteSets, TLC

(***************************************************************************)
(* Bounds of the model.                                                    *)
(***************************************************************************)
\* frames the peer puts on the wire
MaxFrames == 3
\* messages the application posts on Out
MaxMsgs == 2
\* calls of Conn.Close by the application
MaxCloseCalls == 1
\* frames of the peer, messages and calls of Close together
MaxEvents == 3
\* requests the handler serves
MaxRequests == 2
\* bytes of a header on the wire that a stream may have, and bytes of a
\* payload
MaxHeaderLen == 15
MaxPayload == 6

(***************************************************************************)
(* Program constants.                                                      *)
(***************************************************************************)
fin == 128
rsvMask == 112
opCodeMask == 15
opCodeContinuation == 0
opCodeText == 1
opCodeBinary == 2
opCodeControlFrame == 8
opCodeConnectionClose == 8
opCodePing == 9
opCodePong == 10
statusNormalClosure == 1000
statusProtocolError == 1002
CONNECTING == 0
OPEN == 1
CLOSING == 2
CLOSED == 3
\* capacity of the channels in, out and send
chanCap == 16
\* fragment size of sendMessageLoop
max == 128
MaxUint16 == 65535

opCodeDescriptions ==
    {opCodeContinuation, opCodeText, opCodeBinary,
     opCodeConnectionClose, opCodePing, opCodePong}

(***************************************************************************)
(* Bytes.                                                                  *)
(***************************************************************************)
RECURSIVE BitOp(_, _, _, _)
\* bitwise operation on the low n bits of a and b; f is the truth table
\* <<f(0,0), f(0,1), f(1,0), f(1,1)>>
BitOp(f, a, b, n) ==
    IF n = 0 THEN 0
    ELSE f[2 * (a % 2) + (b % 2) + 1] + 2 * BitOp(f, a \div 2, b \div 2, n - 1)

And8(a, b) == BitOp(<<0, 0, 0, 1>>, a, b, 8)
Or8(a, b) == BitOp(<<0, 1, 1, 1>>, a, b, 8)
Xor8(a, b) == BitOp(<<0, 1, 1, 0>>, a, b, 8)

(***************************************************************************)
(* Frame headers (frameheader.go).  A nil masking key is the empty         *)
(* sequence.                                                               *)
(***************************************************************************)
NoHeader == [fin |-> FALSE, opCode |-> 0, mask |-> FALSE, payloadLength |-> 0,
             maskingKey |-> <<>>]

\* a newFrameHeader without the test of a negative payload length
newFrameHeaderErr_NoNegativeTest(f, opCode, payloadLength, maskingKey) ==
    IF opCode \notin opCodeDescriptions THEN "errMalformedFrameHeader"
    ELSE IF And8(opCode, opCodeControlFrame) # 0 /\ (~f \/ payloadLength > 125)
         THEN "errMalformedFrameHeader"
    ELSE IF maskingKey # <<>> /\ Len(maskingKey) # 4
         THEN "errMalformedFrameHeader"
    ELSE "nil"

\* a newFrameHeader without the rule for control frames
newFrameHeaderErr_NoControlRule(f, opCode, payloadLength, maskingKey) ==
    IF opCode \notin opCodeDescriptions THEN "errMalformedFrameHeader"
    ELSE IF payloadLength < 0 THEN "errMalformedFrameHeader"
    ELSE IF maskingKey # <<>> /\ Len(maskingKey) # 4
         THEN "errMalformedFrameHeader"
    ELSE "nil"

\* the error newFrameHeader returns: "nil" or "errMalformedFrameHeader"
newFrameHeaderErr(f, opCode, payloadLength, maskingKey) ==
    LET controlFrame == And8(opCode, opCodeControlFrame) # 0
        mask == maskingKey # <<>>
    IN  IF opCode \notin opCodeDescriptions THEN "errMalformedFrameHeader"
        ELSE IF controlFrame /\ (~f \/ payloadLength > 125)
             THEN "errMalformedFrameHeader"
        ELSE IF payloadLength < 0 THEN "errMalformedFrameHeader"
        ELSE IF mask /\ Len(maskingKey) # 4 THEN "errMalformedFrameHeader"
        ELSE "nil"

\* newFrameHeader as the file with the earlier Conn has it: controlFrame is
\* opCode&opCodeControlFrame != 1, and the masked opcode is 0 or 8
newFrameHeaderErrEarlier(f, opCode, payloadLength, maskingKey) ==
    LET controlFrame == And8(opCode, opCodeControlFrame) # 1
        mask == maskingKey # <<>>
    IN  IF opCode \notin opCodeDescriptions THEN "errMalformedFrameHeader"
        ELSE IF controlFrame /\ (~f \/ payloadLength > 125)
             THEN "errMalformedFrameHeader"
        ELSE IF payloadLength < 0 THEN "errMalformedFrameHeader"
        ELSE IF mask /\ Len(maskingKey) # 4 THEN "errMalformedFrameHeader"
        ELSE "nil"

newFrameHeader(f, opCode, payloadLength, maskingKey) ==
    [fin |-> f, opCode |-> opCode, mask |-> maskingKey # <<>>,
     payloadLength |-> payloadLength, maskingKey |-> maskingKey]

\* big-endian bytes of v, n of them
RECURSIVE BigEndian(_, _)
BigEndian(v, n) ==
    IF n = 0 THEN <<>> ELSE Append(BigEndian(v \div 256, n - 1), v % 256)

\* a Bytes that keeps the 7-bit form up to 126
Bytes_SevenBitsTo126(fh) ==
    LET b0 == IF fh.fin THEN Or8(fin, fh.opCode) ELSE fh.opCode
    IN  IF fh.payloadLength > MaxUint16
            THEN <<b0, 127>> \o BigEndian(fh.payloadLength, 8)
        ELSE IF fh.payloadLength > 126
            THEN <<b0, 126>> \o BigEndian(fh.payloadLength % 65536, 2)
        ELSE <<b0, fh.payloadLength % 256>>

\* a Bytes that writes the mask bit and the masking key of the header
Bytes_WithMask(fh) ==
    LET b0 == IF fh.fin THEN Or8(fin, fh.opCode) ELSE fh.opCode
        m == IF fh.mask THEN 128 ELSE 0
        key == IF fh.mask THEN fh.maskingKey ELSE <<>>
    IN  IF fh.payloadLength > MaxUint16
            THEN <<b0, 127 + m>> \o BigEndian(fh.payloadLength, 8) \o key
        ELSE IF fh.payloadLength > 125
            THEN <<b0, 126 + m>> \o BigEndian(fh.payloadLength % 65536, 2) \o key
        ELSE <<b0, (fh.payloadLength % 256) + m>> \o key

\* a Bytes that leaves the fin bit out
Bytes_NoFin(fh) ==
    LET b0 == fh.opCode
    IN  IF fh.payloadLength > MaxUint16
            THEN <<b0, 127>> \o BigEndian(fh.payloadLength, 8)
        ELSE IF fh.payloadLength > 125
            THEN <<b0, 126>> \o BigEndian(fh.payloadLength % 65536, 2)
        ELSE <<b0, fh.payloadLength % 256>>

\* frameHeader.Bytes: what the server puts on the wire for a header
Bytes(fh) ==
    LET b0 == IF fh.fin THEN Or8(fin, fh.opCode) ELSE fh.opCode
    IN  IF fh.payloadLength > MaxUint16
            THEN <<b0, 127>> \o BigEndian(fh.payloadLength, 8)
        ELSE IF fh.payloadLength > 125
            THEN <<b0, 126>> \o BigEndian(fh.payloadLength % 65536, 2)
        ELSE <<b0, fh.payloadLength % 256>>

(***************************************************************************)
(* Frames (frame.go).  A frame the server sends carries its payload as a   *)
(* buffer: kind "raw" holds the bytes themselves, kind "msg" stands for    *)
(* bytes[3] bytes of message bytes[1] of Out, from offset bytes[2].        *)
(***************************************************************************)
RawBuf(bs) == [kind |-> "raw", bytes |-> bs]
MsgBuf(id, off, n) == [kind |-> "msg", bytes |-> <<id, off, n>>]
HdrBuf(bs) == [kind |-> "hdr", bytes |-> bs]
BufLen(b) == IF b.kind = "msg" THEN b.bytes[3] ELSE Len(b.bytes)

newFrame(header, payload) == [header |-> header, payload |-> payload]

\* an errConnection: a status code and a reason, the bytes of a string
newErrConnection(code, reason) == [code |-> code, reason |-> reason]

errNormalClosure == newErrConnection(statusNormalClosure, <<>>)

\* "Connection closed before close frame was sent"
reasonClosedEarly ==
    <<
      67, 111, 110, 110, 101, 99, 116, 105, 111, 110, 32, 99, 108, 111,
      115, 101, 100, 32, 98, 101, 102, 111, 114, 101, 32, 99, 108, 111,
      115, 101, 32, 102, 114, 97, 109, 101, 32, 119, 97, 115, 32, 115,
      101, 110, 116
    >>

\* the argument of a destroy, which takes no errConnection
NoErr == newErrConnection(0, <<>>)

\* newCloseFrame: the status code, big-endian, and the reason
newCloseFrame(e) ==
    newFrame(newFrameHeader(TRUE, opCodeConnectionClose, 2 + Len(e.reason), <<>>),
             RawBuf(BigEndian(e.code, 2) \o e.reason))

(***************************************************************************)
(* What the peer sends.  The i-th frame of the wire carries the one        *)
(* payload byte i (or none), so that payload bytes tell their frame; a     *)
(* masked frame carries it XORed with its masking key.  A frame is short   *)
(* when the peer closes the stream inside its payload: its header          *)
(* declares one byte and none arrives.                                     *)
(***************************************************************************)
PeerKey == <<55, 250, 33, 61>>

RECURSIVE MaskBytes(_, _, _)
\* bytes bs at offsets i, i+1, ... XORed with the masking key
MaskBytes(bs, key, i) ==
    IF bs = <<>> THEN <<>>
    ELSE <<Xor8(Head(bs), key[(i % 4) + 1])>> \o MaskBytes(Tail(bs), key, i + 1)

PeerFrame(i, f, op, n, masked, short) ==
    LET plain == IF n = 1 /\ ~short THEN <<i>> ELSE <<>>
        key == IF masked THEN PeerKey ELSE <<>>
    IN  [fin |-> f, opCode |-> op, payloadLength |-> n, maskingKey |-> key,
         plain |-> plain,
         payload |-> IF masked THEN MaskBytes(plain, key, 0) ELSE plain]

\* The frames the peer may send as frame i.  Complete frames are masked, as
\* a client must; a short frame may be either.
PeerFrames(i) ==
    \* data frames
    {PeerFrame(i, f, op, n, TRUE, FALSE) :
        f \in BOOLEAN, op \in {opCodeText, opCodeContinuation}, n \in {0, 1}}
    \cup {PeerFrame(i, f, opCodeBinary, 1, TRUE, FALSE) : f \in BOOLEAN}
    \* control frames
    \cup {PeerFrame(i, TRUE, op, n, TRUE, FALSE) :
        op \in {opCodeConnectionClose, opCodePing, opCodePong}, n \in {0, 1}}
    \* headers newFrameHeader refuses: an unknown opcode, a control frame
    \* without fin
    \cup {PeerFrame(i, TRUE, 3, 0, TRUE, FALSE),
          PeerFrame(i, FALSE, opCodePing, 0, TRUE, FALSE)}
    \* frames whose payload the stream ends in
    \cup {PeerFrame(i, TRUE, op, 1, m, TRUE) :
        op \in {opCodeText, opCodeContinuation, opCodePing, opCodeConnectionClose},
        m \in BOOLEAN}

IsShort(fr) == Len(fr.payload) < fr.payloadLength

(***************************************************************************)
(* State.                                                                  *)
(***************************************************************************)
VARIABLES
    \* fields of Conn
    State, closeSent, closeRecieved, Cleanly, currWriter, expectingContFrame,
    \* channels c.in, c.send and c.out
    inQ, inClosed, sendQ, sendClosed, outQ,
    \* the socket: closed by the server, closed by the peer, the bufio.Writer
    \* of c.rw (unflushed bytes, first error), the bytes the peer has got
    connClosed, peerEnd, wbuf, werr, written,
    \* the pipes made by processText, by number
    pipes,
    \* the goroutines: where each is, its return labels, the arguments of
    \* the destroy (clean) or sendClose (e) it runs
    pc, stack, arg,
    \* locals of the router goroutine: frame, err, pipe writer w
    rf, rerr, rw,
    \* local of sendLoop: the frame in hand
    wf,
    \* locals of sendMessageLoop: message, offset, opcode
    fmsg, foff, fop,
    \* the application: messages posted on Out, calls of Close
    posted, closeCalls,
    \* the panic that ended the process, or "nil"
    panic,
    \* history: the frames the peer has sent (lost: taken by a read ahead
    \* and never parsed; wr: how much the server had written by then), the
    \* frames put on c.send, the wire numbers of the pings handed to
    \* processPing
    wireLog, sendLog, pingLog,
    \* Handler.ServeHTTP: where it is, the request in hand, the requests
    \* answered so far with the status and header written for each, the
    \* requests whose connection was hijacked, got the final CRLF, got a
    \* Conn from newConn, and whose Conn was started; the channel h.Conns
    hsPc, req, hsLog, hijacked, crlf, created, Conns, started,
    \* the codec on its own: the input given to one of its functions, and
    \* what the function returned
    cdIn, cdOut

connVars == <<State, closeSent, closeRecieved, Cleanly, currWriter,
              expectingContFrame>>
chanVars == <<inQ, inClosed, sendQ, sendClosed, outQ>>
sockVars == <<connClosed, peerEnd, wbuf, werr, written>>
taskVars == <<pc, stack, arg>>
readerVars == <<rf, rerr, rw>>
fragVars == <<fmsg, foff, fop>>
appVars == <<posted, closeCalls>>
histVars == <<wireLog, sendLog, pingLog>>

\* the variables of one connection, and those of the handler that made it
connAll == <<connVars, chanVars, sockVars, pipes, taskVars, readerVars, wf,
             fragVars, appVars, panic, histVars>>
hsVars == <<hsPc, req, hsLog, hijacked, crlf, created, Conns, started>>

cdVars == <<cdIn, cdOut>>

vars == <<connAll, hsVars, cdVars>>

Tasks == {"reader", "writer", "frag", "app"}

\* no input of the codec, and nothing returned
NoInput ==
    [kind |-> "none", fin |-> FALSE, opCode |-> 0, payloadLength |-> 0,
     maskingKey |-> <<>>, stream |-> <<>>, plain |-> <<>>]

NoOutput ==
    [step |-> "none", hasFh |-> FALSE, fh |-> NoHeader, err |-> "nil",
     n |-> 0, bytes |-> <<>>, data |-> <<>>]

\* no request in hand
NoRequest ==
    [proto |-> <<0, 0>>, upgrade |-> <<>>, connection |-> <<>>,
     version |-> <<>>, key |-> <<>>]

NoFrame == [header |-> NoHeader, payload |-> <<>>, idx |-> 0]
NoMsg == [id |-> 0, len |-> 0, fails |-> FALSE]

\* io.Pipe(): status is "open", "EOF" (writer closed) or the error the
\* writer closed with; pending is the Write the reader has not taken yet;
\* data is what the application has read; born is the wire frame it is for,
\* fed the wire frames whose payload readPayloadTo has read for it
NewPipe(idx) ==
    [status |-> "open", pending |-> <<>>, data |-> <<>>, taken |-> FALSE,
     born |-> idx, fed |-> <<>>]

\* newConn and Conn.start: the three goroutines are started
ConnInit ==
    /\ State = OPEN
    /\ closeSent = FALSE
    /\ closeRecieved = FALSE
    /\ Cleanly = FALSE
    /\ currWriter = 0
    /\ expectingContFrame = FALSE
    /\ inQ = <<>>
    /\ inClosed = FALSE
    /\ sendQ = <<>>
    /\ sendClosed = FALSE
    /\ outQ = <<>>
    /\ connClosed = FALSE
    /\ peerEnd = FALSE
    /\ wbuf = <<>>
    /\ werr = FALSE
    /\ written = <<>>
    /\ pipes = <<>>
    /\ pc = [t \in Tasks |->
                CASE t = "reader" -> "router"
                  [] t = "writer" -> "sendLoop"
                  [] t = "frag" -> "sendMessageLoop"
                  [] t = "app" -> "idle"]
    /\ stack = [t \in Tasks |-> <<>>]
    /\ arg = [t \in Tasks |-> [clean |-> FALSE, e |-> NoErr]]
    /\ rf = NoFrame
    /\ rerr = "nil"
    /\ rw = 0
    /\ wf = newFrame(NoHeader, RawBuf(<<>>))
    /\ fmsg = NoMsg
    /\ foff = 0
    /\ fop = opCodeText
    /\ posted = 0
    /\ closeCalls = 0
    /\ panic = "nil"
    /\ wireLog = <<>>
    /\ sendLog = <<>>
    /\ pingLog = <<>>

\* the handler has served no request
HsIdle ==
    /\ hsPc = "idle"
    /\ req = NoRequest
    /\ hsLog = <<>>
    /\ hijacked = {}
    /\ crlf = {}
    /\ created = {}
    /\ Conns = <<>>
    /\ started = {}

\* the codec is given nothing
CodecIdle ==
    /\ cdIn = NoInput
    /\ cdOut = NoOutput

Init == ConnInit /\ HsIdle /\ CodecIdle

(***************************************************************************)
(* Control: a goroutine is at a label while the process has not panicked.  *)
(***************************************************************************)
At(t, l) == panic = "nil" /\ pc[t] = l

Goto(t, l) == pc' = [pc EXCEPT ![t] = l]

\* call a method: run it from label l, then go on at label ret
Call(t, l, ret, a) ==
    /\ pc' = [pc EXCEPT ![t] = l]
    /\ stack' = [stack EXCEPT ![t] = <<ret>> \o @]
    /\ arg' = [arg EXCEPT ![t] = a]

Return(t) ==
    /\ pc' = [pc EXCEPT ![t] = Head(stack[t])]
    /\ stack' = [stack EXCEPT ![t] = Tail(@)]
    /\ arg' = arg

\* c <- v on a channel of capacity chanCap: blocks while the channel is
\* full, panics when it is closed
CanSend(q, isClosed) == isClosed \/ Len(q) < chanCap

(***************************************************************************)
(* frame.readPayloadTo (frame.go).                                         *)
(***************************************************************************)
\* What readPayloadTo has for its sink when it reaches bw.Flush (flush is
\* FALSE when it returns before), and the error it has by then.  A short
\* masked payload returns ErrUnexpectedEOF at once and nothing is flushed;
\* for an unmasked payload the error of io.CopyN is overwritten by the
\* result of bw.Flush.
\* n is the count it returns; it reads no more than payloadLength bytes.
\* (below: a readPayloadTo that starts at the second byte of the key)
readPayloadTo_KeyFromOne(f) ==
    LET length == f.header.payloadLength
        got == IF Len(f.payload) > length
                  THEN SubSeq(f.payload, 1, length) ELSE f.payload
    IN  IF length = 0
            THEN [data |-> <<>>, err |-> "nil", flush |-> FALSE, n |-> 0]
        ELSE IF f.header.mask
            THEN IF Len(got) < length
                    THEN [data |-> <<>>, err |-> "ErrUnexpectedEOF",
                          flush |-> FALSE, n |-> Len(got)]
                    ELSE [data |-> MaskBytes(got, f.header.maskingKey, 1),
                          err |-> "nil", flush |-> TRUE, n |-> length]
        ELSE [data |-> got, err |-> "nil", flush |-> TRUE, n |-> Len(got)]

readPayloadTo(f) ==
    LET length == f.header.payloadLength
        got == IF Len(f.payload) > length
                  THEN SubSeq(f.payload, 1, length) ELSE f.payload
    IN  IF length = 0
            THEN [data |-> <<>>, err |-> "nil", flush |-> FALSE, n |-> 0]
        ELSE IF f.header.mask
            THEN IF Len(got) < length
                    THEN [data |-> <<>>, err |-> "ErrUnexpectedEOF",
                          flush |-> FALSE, n |-> Len(got)]
                    ELSE [data |-> MaskBytes(got, f.header.maskingKey, 0),
                          err |-> "nil", flush |-> TRUE, n |-> length]
        ELSE [data |-> got, err |-> "nil", flush |-> TRUE, n |-> Len(got)]

\* what the peer and the application have done so far
Events == Len(wireLog) + posted + closeCalls

\* The frames that may be lost to a read ahead, as frame i: the last
\* fragment of a message and a close frame.  A lost frame is never parsed,
\* so its kind does not change what the server does.
LostFrames(i) ==
    {PeerFrame(i, TRUE, opCodeContinuation, 1, TRUE, FALSE),
     PeerFrame(i, TRUE, opCodeConnectionClose, 0, TRUE, FALSE)}

\* br := bufio.NewReader(f.payload) reads from c.rw whatever has arrived,
\* which may hold the frames that follow the payload; br is dropped when
\* readPayloadTo returns, and these frames with it.  The model lets it take
\* no frame or the next one.
ReadAhead(f) ==
    IF f.header.payloadLength = 0 \/ peerEnd
          \/ Len(wireLog) >= MaxFrames \/ Events >= MaxEvents
        THEN {<<>>}
        ELSE {<<>>} \cup
             {<<[frame |-> fr, lost |-> TRUE, wr |-> Len(written)]>> :
                 fr \in LostFrames(Len(wireLog) + 1)}

\* the effect of one readPayloadTo on the stream of the peer
TakePayload(f) ==
    \E ahead \in ReadAhead(f) :
        /\ wireLog' = wireLog \o ahead
        /\ peerEnd' = (peerEnd \/ (ahead # <<>> /\ IsShort(ahead[1].frame)))

\* PipeWriter.Close and PipeWriter.CloseWithError: the first close stays,
\* and a Write that waits for the reader is given up
ClosePipe(ps, w, status) ==
    IF ps[w].status = "open"
        THEN [ps EXCEPT ![w].status = status, ![w].pending = <<>>]
        ELSE ps

(***************************************************************************)
(* Conn.router (websocket.go), run by the goroutine of Conn.start.         *)
(***************************************************************************)
\* a router that goes by opcode whether or not a close frame was sent
Dispatch_NoDrain(op) ==
    CASE op = opCodePing -> "processPing"
      [] op = opCodePong -> "processPong"
      [] op = opCodeConnectionClose -> "routerClose"
      [] op \in {opCodeBinary, opCodeText} -> "processText"
      [] op = opCodeContinuation -> "processContinuation"

\* where router goes with a frame: frames other than close are ignored once
\* a close frame was sent; the others go by opcode
Dispatch(op) ==
    IF closeSent /\ op # opCodeConnectionClose THEN "drain"
    ELSE CASE op = opCodePing -> "processPing"
           [] op = opCodePong -> "processPong"
           [] op = opCodeConnectionClose -> "routerClose"
           [] op \in {opCodeBinary, opCodeText} -> "processText"
           [] op = opCodeContinuation -> "processContinuation"

\* for !c.closeRecieved: the loop ends, router returns nil
RouterReturn ==
    /\ At("reader", "router")
    /\ closeRecieved
    /\ Goto("reader", "done")
    /\ UNCHANGED <<connVars, chanVars, sockVars, pipes, stack, arg, readerVars,
                   wf, fragVars, appVars, panic, histVars>>
    /\ UNCHANGED <<hsVars, cdVars>>

\* nextFrame reads a header the peer has sent, which newFrameHeader checks
NextFrame ==
    /\ At("reader", "router")
    /\ ~closeRecieved
    /\ ~peerEnd
    /\ Len(wireLog) < MaxFrames
    /\ Events < MaxEvents
    /\ \E fr \in PeerFrames(Len(wireLog) + 1) :
        LET e == newFrameHeaderErr(fr.fin, fr.opCode, fr.payloadLength, fr.maskingKey)
            fh == newFrameHeader(fr.fin, fr.opCode, fr.payloadLength, fr.maskingKey)
        IN  /\ wireLog' = Append(wireLog, [frame |-> fr, lost |-> FALSE,
                                           wr |-> Len(written)])
            /\ peerEnd' = IsShort(fr)
            /\ IF e # "nil"
                  THEN /\ rerr' = e
                       /\ rf' = rf
                       /\ Goto("reader", "fault")
                  ELSE /\ rerr' = "nil"
                       /\ rf' = [header |-> fh, payload |-> fr.payload,
                                 idx |-> Len(wireLog) + 1]
                       /\ Goto("reader", Dispatch(fr.opCode))
    /\ UNCHANGED <<connVars, chanVars, connClosed, wbuf, werr, written, pipes,
                   stack, arg, rw, wf, fragVars, appVars, panic, sendLog,
                   pingLog>>
    /\ UNCHANGED <<hsVars, cdVars>>

\* nextFrame when the peer has closed the stream: before a header (EOF) or
\* inside one (ErrUnexpectedEOF)
NextFrameEOF ==
    /\ At("reader", "router")
    /\ ~closeRecieved
    /\ \E e \in {"EOF", "ErrUnexpectedEOF"} :
        /\ peerEnd => e = "EOF"
        /\ rerr' = e
    /\ peerEnd' = TRUE
    /\ Goto("reader", "fault")
    /\ UNCHANGED <<connVars, chanVars, connClosed, wbuf, werr, written, pipes,
                   stack, arg, rf, rw, wf, fragVars, appVars, panic, histVars>>
    /\ UNCHANGED <<hsVars, cdVars>>

\* readPayloadTo(ioutil.Discard) of router and of processPong
DiscardPayload(label) ==
    /\ At("reader", label)
    /\ TakePayload(rf)
    /\ rerr' = readPayloadTo(rf).err
    /\ IF rerr' # "nil" THEN Goto("reader", "fault") ELSE Goto("reader", "router")
    /\ UNCHANGED <<connVars, chanVars, connClosed, wbuf, werr, written, pipes,
                   stack, arg, rf, rw, wf, fragVars, appVars, panic, sendLog,
                   pingLog>>
    /\ UNCHANGED <<hsVars, cdVars>>

Drain == DiscardPayload("drain")

\* a processPong that answers the pong as processPing answers a ping
ProcessPong_Answers ==
    /\ At("reader", "processPong")
    /\ TakePayload(rf)
    /\ LET res == readPayloadTo(rf)
           pongFrame == newFrame(
               newFrameHeader(TRUE, opCodePong, rf.header.payloadLength, <<>>),
               RawBuf(res.data))
       IN  /\ rerr' = res.err
           /\ IF res.err # "nil"
                 THEN /\ Goto("reader", "fault")
                      /\ UNCHANGED <<sendQ, sendLog, pingLog, panic>>
                 ELSE /\ CanSend(sendQ, sendClosed)
                      /\ pingLog' = Append(pingLog, rf.idx)
                      /\ IF sendClosed
                            THEN /\ panic' = "send on closed channel c.send"
                                 /\ UNCHANGED <<sendQ, sendLog, pc>>
                            ELSE /\ sendQ' = Append(sendQ, pongFrame)
                                 /\ sendLog' = Append(sendLog, pongFrame)
                                 /\ Goto("reader", "router")
                                 /\ panic' = panic
    /\ UNCHANGED <<connVars, inQ, inClosed, sendClosed, outQ, connClosed, wbuf,
                   werr, written, pipes, stack, arg, rf, rw, wf, fragVars,
                   appVars>>
    /\ UNCHANGED <<hsVars, cdVars>>

ProcessPong == DiscardPayload("processPong")

\* processPing: the payload is copied, a pong frame made of it, and
\* c.send <- pongFrame
ProcessPing ==
    /\ At("reader", "processPing")
    /\ TakePayload(rf)
    /\ LET res == readPayloadTo(rf)
           pongFrame == newFrame(
               newFrameHeader(TRUE, opCodePong, rf.header.payloadLength, <<>>),
               RawBuf(res.data))
       IN  /\ rerr' = res.err
           /\ IF res.err # "nil"
                 THEN /\ Goto("reader", "fault")
                      /\ UNCHANGED <<sendQ, sendLog, pingLog, panic>>
                 ELSE /\ CanSend(sendQ, sendClosed)
                      /\ pingLog' = Append(pingLog, rf.idx)
                      /\ IF sendClosed
                            THEN /\ panic' = "send on closed channel c.send"
                                 /\ UNCHANGED <<sendQ, sendLog, pc>>
                            ELSE /\ sendQ' = Append(sendQ, pongFrame)
                                 /\ sendLog' = Append(sendLog, pongFrame)
                                 /\ Goto("reader", "router")
                                 /\ panic' = panic
    /\ UNCHANGED <<connVars, inQ, inClosed, sendClosed, outQ, connClosed, wbuf,
                   werr, written, pipes, stack, arg, rf, rw, wf, fragVars,
                   appVars>>
    /\ UNCHANGED <<hsVars, cdVars>>

\* processText: the check of expectingContFrame, which no code sets,
\* io.Pipe(), and c.in <- r
ProcessText ==
    /\ At("reader", "processText")
    /\ IF expectingContFrame
          THEN /\ rerr' = "errConnection 1002"
               /\ Goto("reader", "fault")
               /\ UNCHANGED <<pipes, rw, inQ, panic>>
          ELSE /\ CanSend(inQ, inClosed)
               /\ pipes' = Append(pipes, NewPipe(rf.idx))
               /\ rw' = Len(pipes) + 1
               /\ rerr' = rerr
               /\ IF inClosed
                     THEN /\ panic' = "send on closed channel c.in"
                          /\ UNCHANGED <<inQ, pc>>
                     ELSE /\ inQ' = Append(inQ, Len(pipes) + 1)
                          /\ Goto("reader", "textRead")
                          /\ panic' = panic
    /\ UNCHANGED <<connVars, inClosed, sendQ, sendClosed, outQ, sockVars,
                   stack, arg, rf, wf, fragVars, appVars, histVars>>
    /\ UNCHANGED <<hsVars, cdVars>>

\* readPayloadTo(w) for the pipe writer w, up to the Write of bw.Flush,
\* which waits for the reader of the pipe ("Flush" stands for its result)
PayloadToPipe(label, endLabel) ==
    /\ At("reader", label)
    /\ TakePayload(rf)
    /\ LET res == readPayloadTo(rf)
           fed == Append(pipes[rw].fed, rf.idx)
       IN  IF ~res.flush \/ res.data = <<>>
              THEN /\ rerr' = res.err
                   /\ pipes' = [pipes EXCEPT ![rw].fed = fed]
           ELSE IF pipes[rw].status # "open"
              THEN /\ rerr' = "ErrClosedPipe"
                   /\ pipes' = [pipes EXCEPT ![rw].fed = fed]
           ELSE /\ rerr' = "Flush"
                /\ pipes' = [pipes EXCEPT ![rw].pending = res.data,
                                          ![rw].fed = fed]
    /\ Goto("reader", endLabel)
    /\ UNCHANGED <<connVars, chanVars, connClosed, wbuf, werr, written, stack,
                   arg, rf, rw, wf, fragVars, appVars, panic, sendLog, pingLog>>
    /\ UNCHANGED <<hsVars, cdVars>>

\* the error readPayloadTo returns once bw.Flush has returned: the reader
\* has taken the bytes, or the pipe was closed
FlushErr ==
    IF rerr # "Flush" THEN rerr
    ELSE IF pipes[rw].status = "open" THEN "nil" ELSE "ErrClosedPipe"

TextRead == PayloadToPipe("textRead", "textEnd")

\* a processText whose readPayloadTo does not wait for the reader of the pipe
TextEnd_NoWait ==
    /\ At("reader", "textEnd")
    /\ rerr' = FlushErr
    /\ IF FlushErr = "ErrUnexpectedEOF"
          THEN /\ pipes' = ClosePipe(pipes, rw, "ErrUnexpectedEOF")
               /\ currWriter' = currWriter
          ELSE IF rf.header.fin
                  THEN /\ pipes' = ClosePipe(pipes, rw, "EOF")
                       /\ currWriter' = currWriter
                  ELSE /\ pipes' = pipes
                       /\ currWriter' = rw
    /\ IF FlushErr # "nil" THEN Goto("reader", "fault") ELSE Goto("reader", "router")
    /\ UNCHANGED <<State, closeSent, closeRecieved, Cleanly, expectingContFrame,
                   chanVars, sockVars, stack, arg, rf, rw, wf, fragVars,
                   appVars, panic, histVars>>
    /\ UNCHANGED <<hsVars, cdVars>>

\* processText, after readPayloadTo
TextEnd ==
    /\ At("reader", "textEnd")
    /\ pipes[rw].pending = <<>>
    /\ rerr' = FlushErr
    /\ IF FlushErr = "ErrUnexpectedEOF"
          THEN /\ pipes' = ClosePipe(pipes, rw, "ErrUnexpectedEOF")
               /\ currWriter' = currWriter
          ELSE IF rf.header.fin
                  THEN /\ pipes' = ClosePipe(pipes, rw, "EOF")
                       /\ currWriter' = currWriter
                  ELSE /\ pipes' = pipes
                       /\ currWriter' = rw
    /\ IF FlushErr # "nil" THEN Goto("reader", "fault") ELSE Goto("reader", "router")
    /\ UNCHANGED <<State, closeSent, closeRecieved, Cleanly, expectingContFrame,
                   chanVars, sockVars, stack, arg, rf, rw, wf, fragVars,
                   appVars, panic, histVars>>
    /\ UNCHANGED <<hsVars, cdVars>>

\* processContinuation: the check of c.currWriter, and w := c.currWriter
ProcessContinuation ==
    /\ At("reader", "processContinuation")
    /\ IF currWriter = 0
          THEN /\ rerr' = "errConnection 1002"
               /\ rw' = rw
               /\ Goto("reader", "fault")
          ELSE /\ rerr' = rerr
               /\ rw' = currWriter
               /\ Goto("reader", "contRead")
    /\ UNCHANGED <<connVars, chanVars, sockVars, pipes, stack, arg, rf, wf,
                   fragVars, appVars, panic, histVars>>
    /\ UNCHANGED <<hsVars, cdVars>>

ContRead == PayloadToPipe("contRead", "contEnd")

\* processContinuation, after readPayloadTo
ContEnd ==
    /\ At("reader", "contEnd")
    /\ pipes[rw].pending = <<>>
    /\ IF FlushErr = "ErrUnexpectedEOF"
          THEN /\ pipes' = ClosePipe(pipes, rw, "ErrUnexpectedEOF")
               /\ currWriter' = currWriter
               /\ rerr' = "errConnection 1002"
          ELSE /\ rerr' = FlushErr
               /\ IF rf.header.fin
                     THEN /\ pipes' = ClosePipe(pipes, rw, "EOF")
                          /\ currWriter' = 0
                     ELSE /\ pipes' = pipes
                          /\ currWriter' = currWriter
    /\ IF rerr' # "nil" THEN Goto("reader", "fault") ELSE Goto("reader", "router")
    /\ UNCHANGED <<State, closeSent, closeRecieved, Cleanly, expectingContFrame,
                   chanVars, sockVars, stack, arg, rf, rw, wf, fragVars,
                   appVars, panic, histVars>>
    /\ UNCHANGED <<hsVars, cdVars>>

\* router: c.closeRecieved = true
RouterClose ==
    /\ At("reader", "routerClose")
    /\ closeRecieved' = TRUE
    /\ Goto("reader", "processConnectionClose")
    /\ UNCHANGED <<State, closeSent, Cleanly, currWriter, expectingContFrame,
                   chanVars, sockVars, pipes, stack, arg, readerVars, wf,
                   fragVars, appVars, panic, histVars>>
    /\ UNCHANGED <<hsVars, cdVars>>

\* processConnectionClose: c.State = CLOSING and readPayloadTo(ioutil.Discard)
ProcessConnectionClose ==
    /\ At("reader", "processConnectionClose")
    /\ State' = CLOSING
    /\ TakePayload(rf)
    /\ rerr' = readPayloadTo(rf).err
    /\ Goto("reader", "closeReply")
    /\ UNCHANGED <<closeSent, closeRecieved, Cleanly, currWriter,
                   expectingContFrame, chanVars, connClosed, wbuf, werr,
                   written, pipes, stack, arg, rf, rw, wf, fragVars, appVars,
                   panic, sendLog, pingLog>>
    /\ UNCHANGED <<hsVars, cdVars>>

\* processConnectionClose: destroy(true) when a close frame was sent, else
\* sendClose; then router returns the error of readPayloadTo, if any, to
\* Conn.start
CloseReply ==
    /\ At("reader", "closeReply")
    /\ LET ret == IF rerr # "nil" THEN "fault" ELSE "router"
       IN  IF closeSent
              THEN Call("reader", "destroy", ret, [clean |-> TRUE, e |-> NoErr])
              ELSE Call("reader", "sendClose", ret,
                        [clean |-> FALSE,
                         e |-> IF rerr # "nil"
                                  THEN newErrConnection(statusProtocolError,
                                                        reasonClosedEarly)
                                  ELSE errNormalClosure])
    /\ UNCHANGED <<connVars, chanVars, sockVars, pipes, readerVars, wf,
                   fragVars, appVars, panic, histVars>>
    /\ UNCHANGED <<hsVars, cdVars>>

\* a Conn.start that leaves out c.closing()
Fault_NoClosing ==
    /\ At("reader", "fault")
    /\ pc' = [pc EXCEPT !["reader"] = "destroy"]
    /\ stack' = [stack EXCEPT !["reader"] = <<"done">>]
    /\ arg' = [arg EXCEPT !["reader"] = [clean |-> FALSE, e |-> NoErr]]
    /\ UNCHANGED <<connVars, chanVars, sockVars, pipes, readerVars, wf,
                   fragVars, appVars, panic, histVars>>
    /\ UNCHANGED <<hsVars, cdVars>>

\* Conn.start: router returned an error: c.closing(), then c.destroy(false)
Fault ==
    /\ At("reader", "fault")
    /\ pc' = [pc EXCEPT !["reader"] = "closing"]
    /\ stack' = [stack EXCEPT !["reader"] = <<"destroy", "done">>]
    /\ arg' = [arg EXCEPT !["reader"] = [clean |-> FALSE, e |-> NoErr]]
    /\ UNCHANGED <<connVars, chanVars, sockVars, pipes, readerVars, wf,
                   fragVars, appVars, panic, histVars>>
    /\ UNCHANGED <<hsVars, cdVars>>

(***************************************************************************)
(* Conn.sendClose, Conn.closing and Conn.destroy, run by the goroutine     *)
(* that calls them: the router goroutine, sendLoop, or the application     *)
(* in Conn.Close.                                                          *)
(***************************************************************************)
\* sendClose: if c.closeSent { return }; c.closing()
SendClose(t) ==
    /\ At(t, "sendClose")
    /\ IF closeSent
          THEN Return(t)
          ELSE /\ pc' = [pc EXCEPT ![t] = "closing"]
               /\ stack' = [stack EXCEPT ![t] = <<"sendCloseFrame">> \o @]
               /\ arg' = arg
    /\ UNCHANGED <<connVars, chanVars, sockVars, pipes, readerVars, wf,
                   fragVars, appVars, panic, histVars>>
    /\ UNCHANGED <<hsVars, cdVars>>

\* a closing that leaves c.in alone when it is closed already
Closing_ClosedTwice(t) ==
    /\ At(t, "closing")
    /\ State' = CLOSING
    /\ IF inClosed
          THEN /\ inClosed' = TRUE
               /\ Goto(t, "closingWriter")
               /\ panic' = panic
          ELSE /\ inClosed' = TRUE
               /\ Goto(t, "closingWriter")
               /\ panic' = panic
    /\ UNCHANGED <<closeSent, closeRecieved, Cleanly, currWriter,
                   expectingContFrame, inQ, sendQ, sendClosed, outQ, sockVars,
                   pipes, stack, arg, readerVars, wf, fragVars, appVars,
                   histVars>>
    /\ UNCHANGED <<hsVars, cdVars>>

\* closing: c.State = CLOSING and close(c.in)
Closing(t) ==
    /\ At(t, "closing")
    /\ State' = CLOSING
    /\ IF inClosed
          THEN /\ panic' = "close of closed channel c.in"
               /\ UNCHANGED <<inClosed, pc>>
          ELSE /\ inClosed' = TRUE
               /\ Goto(t, "closingWriter")
               /\ panic' = panic
    /\ UNCHANGED <<closeSent, closeRecieved, Cleanly, currWriter,
                   expectingContFrame, inQ, sendQ, sendClosed, outQ, sockVars,
                   pipes, stack, arg, readerVars, wf, fragVars, appVars,
                   histVars>>
    /\ UNCHANGED <<hsVars, cdVars>>

\* closing: the message in progress is ended with ErrUnexpectedEOF
ClosingWriter(t) ==
    /\ At(t, "closingWriter")
    /\ IF currWriter # 0
          THEN /\ pipes' = ClosePipe(pipes, currWriter, "ErrUnexpectedEOF")
               /\ currWriter' = 0
          ELSE UNCHANGED <<pipes, currWriter>>
    /\ Return(t)
    /\ UNCHANGED <<State, closeSent, closeRecieved, Cleanly, expectingContFrame,
                   chanVars, sockVars, readerVars, wf, fragVars, appVars, panic,
                   histVars>>
    /\ UNCHANGED <<hsVars, cdVars>>

\* sendClose: c.send <- closeFrame
SendCloseFrame(t) ==
    /\ At(t, "sendCloseFrame")
    /\ CanSend(sendQ, sendClosed)
    /\ IF sendClosed
          THEN /\ panic' = "send on closed channel c.send"
               /\ UNCHANGED <<sendQ, sendLog, pc>>
          ELSE /\ sendQ' = Append(sendQ, newCloseFrame(arg[t].e))
               /\ sendLog' = Append(sendLog, newCloseFrame(arg[t].e))
               /\ Goto(t, "sendCloseChan")
               /\ panic' = panic
    /\ UNCHANGED <<connVars, inQ, inClosed, sendClosed, outQ, sockVars, pipes,
                   stack, arg, readerVars, wf, fragVars, appVars, wireLog,
                   pingLog>>
    /\ UNCHANGED <<hsVars, cdVars>>

\* sendClose: close(c.send)
SendCloseChan(t) ==
    /\ At(t, "sendCloseChan")
    /\ IF sendClosed
          THEN /\ panic' = "close of closed channel c.send"
               /\ UNCHANGED <<sendClosed, pc>>
          ELSE /\ sendClosed' = TRUE
               /\ Goto(t, "sendCloseFlag")
               /\ panic' = panic
    /\ UNCHANGED <<connVars, inQ, inClosed, sendQ, outQ, sockVars, pipes,
                   stack, arg, readerVars, wf, fragVars, appVars, histVars>>
    /\ UNCHANGED <<hsVars, cdVars>>

\* sendClose: c.closeSent = true
SendCloseFlag(t) ==
    /\ At(t, "sendCloseFlag")
    /\ closeSent' = TRUE
    /\ Return(t)
    /\ UNCHANGED <<State, closeRecieved, Cleanly, currWriter,
                   expectingContFrame, chanVars, sockVars, pipes, readerVars,
                   wf, fragVars, appVars, panic, histVars>>
    /\ UNCHANGED <<hsVars, cdVars>>

\* a destroy that is content with one of the two flags
Destroy_EitherFlag(t) ==
    /\ At(t, "destroy")
    /\ IF (closeRecieved \/ closeSent) \/ ~arg[t].clean
          THEN /\ Goto(t, "destroyConn")
               /\ UNCHANGED <<stack, arg>>
          ELSE Return(t)
    /\ UNCHANGED <<connVars, chanVars, sockVars, pipes, readerVars, wf,
                   fragVars, appVars, panic, histVars>>
    /\ UNCHANGED <<hsVars, cdVars>>

\* destroy: if (c.closeRecieved && c.closeSent) || !clean
Destroy(t) ==
    /\ At(t, "destroy")
    /\ IF (closeRecieved /\ closeSent) \/ ~arg[t].clean
          THEN /\ Goto(t, "destroyConn")
               /\ UNCHANGED <<stack, arg>>
          ELSE Return(t)
    /\ UNCHANGED <<connVars, chanVars, sockVars, pipes, readerVars, wf,
                   fragVars, appVars, panic, histVars>>
    /\ UNCHANGED <<hsVars, cdVars>>

\* destroy: c.State = CLOSED, c.Cleanly = clean, and c.conn.Close(), as
\* c.server is true
DestroyConn(t) ==
    /\ At(t, "destroyConn")
    /\ State' = CLOSED
    /\ Cleanly' = arg[t].clean
    /\ connClosed' = TRUE
    /\ Return(t)
    /\ UNCHANGED <<closeSent, closeRecieved, currWriter, expectingContFrame,
                   chanVars, peerEnd, wbuf, werr, written, pipes, readerVars,
                   wf, fragVars, appVars, panic, histVars>>
    /\ UNCHANGED <<hsVars, cdVars>>

(***************************************************************************)
(* Conn.sendLoop.                                                          *)
(***************************************************************************)
\* a sendLoop that takes the newest frame of c.send first
SendLoop_NewestFirst ==
    /\ At("writer", "sendLoop")
    /\ \/ /\ sendQ # <<>>
          /\ wf' = sendQ[Len(sendQ)]
          /\ sendQ' = SubSeq(sendQ, 1, Len(sendQ) - 1)
          /\ IF werr
                THEN /\ Call("writer", "destroy", "done", [clean |-> TRUE, e |-> NoErr])
                     /\ wbuf' = wbuf
                ELSE /\ wbuf' = Append(wbuf, HdrBuf(Bytes(sendQ[Len(sendQ)].header)))
                     /\ IF sendQ[Len(sendQ)].header.payloadLength > 0
                           THEN Goto("writer", "writePayload")
                           ELSE Goto("writer", "sendLoop")
                     /\ UNCHANGED <<stack, arg>>
       \/ /\ sendQ = <<>>
          /\ sendClosed
          /\ Call("writer", "destroy", "done", [clean |-> TRUE, e |-> NoErr])
          /\ UNCHANGED <<wf, sendQ, wbuf>>
    /\ UNCHANGED <<connVars, inQ, inClosed, sendClosed, outQ, connClosed,
                   peerEnd, werr, written, pipes, readerVars, fragVars,
                   appVars, panic, histVars>>
    /\ UNCHANGED <<hsVars, cdVars>>

\* f, ok := <-c.send, and c.rw.Write(f.header.Bytes()), which goes into
\* the buffer of the bufio.Writer or gives back the error of an earlier
\* Flush; c.destroy(true) after the loop
SendLoop ==
    /\ At("writer", "sendLoop")
    /\ \/ /\ sendQ # <<>>
          /\ wf' = Head(sendQ)
          /\ sendQ' = Tail(sendQ)
          /\ IF werr
                THEN /\ Call("writer", "destroy", "done", [clean |-> TRUE, e |-> NoErr])
                     /\ wbuf' = wbuf
                ELSE /\ wbuf' = Append(wbuf, HdrBuf(Bytes(Head(sendQ).header)))
                     /\ IF Head(sendQ).header.payloadLength > 0
                           THEN Goto("writer", "writePayload")
                           ELSE Goto("writer", "sendLoop")
                     /\ UNCHANGED <<stack, arg>>
       \/ /\ sendQ = <<>>
          /\ sendClosed
          /\ Call("writer", "destroy", "done", [clean |-> TRUE, e |-> NoErr])
          /\ UNCHANGED <<wf, sendQ, wbuf>>
    /\ UNCHANGED <<connVars, inQ, inClosed, sendClosed, outQ, connClosed,
                   peerEnd, werr, written, pipes, readerVars, fragVars,
                   appVars, panic, histVars>>
    /\ UNCHANGED <<hsVars, cdVars>>

\* io.CopyN(c.rw, f.payload, f.header.payloadLength) and c.rw.Flush(), whose
\* error is not looked at.  The socket takes the bytes unless the server has
\* closed it; it may refuse them once the peer has closed the stream.
WritePayload ==
    /\ At("writer", "writePayload")
    /\ IF BufLen(wf.payload) < wf.header.payloadLength
          THEN \* the payload buffer ends early: io.CopyN returns io.EOF
               /\ wbuf' = Append(wbuf, wf.payload)
               /\ Call("writer", "destroy", "done", [clean |-> TRUE, e |-> NoErr])
               /\ UNCHANGED <<werr, written>>
          ELSE /\ \/ /\ ~connClosed
                     /\ written' = written \o Append(wbuf, wf.payload)
                     /\ wbuf' = <<>>
                     /\ werr' = werr
                  \/ /\ connClosed \/ peerEnd
                     /\ werr' = TRUE
                     /\ wbuf' = Append(wbuf, wf.payload)
                     /\ written' = written
               /\ Goto("writer", "sendLoop")
               /\ UNCHANGED <<stack, arg>>
    /\ UNCHANGED <<connVars, chanVars, connClosed, peerEnd, pipes, readerVars,
                   wf, fragVars, appVars, panic, histVars>>
    /\ UNCHANGED <<hsVars, cdVars>>

(***************************************************************************)
(* Conn.sendMessageLoop.  A message of Out is a reader that gives len      *)
(* bytes and then ends, with io.EOF or, when it fails, with another error. *)
(***************************************************************************)
MsgLens == {0, max, max + 1}

\* the readers the application posts: one that ends with io.EOF after len
\* bytes, and one that fails before it has given a byte
MsgReaders ==
    {[len |-> n, fails |-> FALSE] : n \in MsgLens}
        \cup {[len |-> 0, fails |-> TRUE]}

\* r, ok := <-c.out; ok && c.State == OPEN
SendMessageLoop ==
    /\ At("frag", "sendMessageLoop")
    /\ outQ # <<>>
    /\ outQ' = Tail(outQ)
    /\ IF State = OPEN
          THEN /\ fmsg' = Head(outQ)
               /\ foff' = 0
               /\ fop' = opCodeText
               /\ Goto("frag", "sendFragment")
          ELSE /\ UNCHANGED fragVars
               /\ Goto("frag", "done")
    /\ UNCHANGED <<connVars, inQ, inClosed, sendQ, sendClosed, sockVars, pipes,
                   stack, arg, readerVars, wf, appVars, panic, histVars>>
    /\ UNCHANGED <<hsVars, cdVars>>

\* a sendMessageLoop whose headers declare the size of the buffer
SendFragment_DeclaresMax ==
    /\ At("frag", "sendFragment")
    /\ CanSend(sendQ, sendClosed)
    /\ LET left == fmsg.len - foff
           n == IF left < max THEN left ELSE max
           \* io.CopyN returns an error when the reader ends before max bytes
           ended == left < max
           eof == ended /\ ~fmsg.fails
           f == newFrame(newFrameHeader(eof, fop, max, <<>>), MsgBuf(fmsg.id, foff, n))
       IN  IF sendClosed
              THEN /\ panic' = "send on closed channel c.send"
                   /\ UNCHANGED <<sendQ, sendLog, pc, fragVars>>
              ELSE /\ sendQ' = Append(sendQ, f)
                   /\ sendLog' = Append(sendLog, f)
                   /\ fop' = opCodeContinuation
                   /\ foff' = foff + n
                   /\ fmsg' = fmsg
                   /\ IF ended THEN Goto("frag", "sendMessageLoop")
                             ELSE Goto("frag", "sendFragment")
                   /\ panic' = panic
    /\ UNCHANGED <<connVars, inQ, inClosed, sendClosed, outQ, sockVars, pipes,
                   stack, arg, readerVars, wf, appVars, wireLog, pingLog>>
    /\ UNCHANGED <<hsVars, cdVars>>

\* one round of the inner loop: io.CopyN(buf, br, max), the frame, and
\* c.send <- f
SendFragment ==
    /\ At("frag", "sendFragment")
    /\ CanSend(sendQ, sendClosed)
    /\ LET left == fmsg.len - foff
           n == IF left < max THEN left ELSE max
           \* io.CopyN returns an error when the reader ends before max bytes
           ended == left < max
           eof == ended /\ ~fmsg.fails
           f == newFrame(newFrameHeader(eof, fop, n, <<>>), MsgBuf(fmsg.id, foff, n))
       IN  IF sendClosed
              THEN /\ panic' = "send on closed channel c.send"
                   /\ UNCHANGED <<sendQ, sendLog, pc, fragVars>>
              ELSE /\ sendQ' = Append(sendQ, f)
                   /\ sendLog' = Append(sendLog, f)
                   /\ fop' = opCodeContinuation
                   /\ foff' = foff + n
                   /\ fmsg' = fmsg
                   /\ IF ended THEN Goto("frag", "sendMessageLoop")
                             ELSE Goto("frag", "sendFragment")
                   /\ panic' = panic
    /\ UNCHANGED <<connVars, inQ, inClosed, sendClosed, outQ, sockVars, pipes,
                   stack, arg, readerVars, wf, appVars, wireLog, pingLog>>
    /\ UNCHANGED <<hsVars, cdVars>>

(***************************************************************************)
(* The application.                                                        *)
(***************************************************************************)
\* c.Out <- r
AppPost ==
    /\ panic = "nil"
    /\ posted < MaxMsgs
    /\ Events < MaxEvents
    /\ Len(outQ) < chanCap
    /\ \E r \in MsgReaders :
          outQ' = Append(outQ, [id |-> posted + 1, len |-> r.len, fails |-> r.fails])
    /\ posted' = posted + 1
    /\ UNCHANGED <<connVars, inQ, inClosed, sendQ, sendClosed, sockVars, pipes,
                   taskVars, readerVars, wf, fragVars, closeCalls, panic,
                   histVars>>
    /\ UNCHANGED <<hsVars, cdVars>>

\* r := <-c.In
AppRecv ==
    /\ panic = "nil"
    /\ inQ # <<>>
    /\ inQ' = Tail(inQ)
    /\ pipes' = [pipes EXCEPT ![Head(inQ)].taken = TRUE]
    /\ UNCHANGED <<connVars, inClosed, sendQ, sendClosed, outQ, sockVars,
                   taskVars, readerVars, wf, fragVars, appVars, panic, histVars>>
    /\ UNCHANGED <<hsVars, cdVars>>

\* r.Read on a reader got from c.In
AppRead ==
    /\ panic = "nil"
    /\ \E p \in 1..Len(pipes) :
        /\ pipes[p].taken
        /\ pipes[p].pending # <<>>
        /\ pipes' = [pipes EXCEPT ![p].data = @ \o pipes[p].pending,
                                  ![p].pending = <<>>]
    /\ UNCHANGED <<connVars, chanVars, sockVars, taskVars, readerVars, wf,
                   fragVars, appVars, panic, histVars>>
    /\ UNCHANGED <<hsVars, cdVars>>

\* c.Close(): c.sendClose(errNormalClosure), up to its check of c.closeSent
AppClose ==
    /\ At("app", "idle")
    /\ closeCalls < MaxCloseCalls
    /\ Events < MaxEvents
    /\ closeCalls' = closeCalls + 1
    /\ IF closeSent
          THEN UNCHANGED <<pc, stack, arg>>
          ELSE /\ pc' = [pc EXCEPT !["app"] = "closing"]
               /\ stack' = [stack EXCEPT !["app"] = <<"sendCloseFrame", "idle">>]
               /\ arg' = [arg EXCEPT !["app"] =
                              [clean |-> FALSE, e |-> errNormalClosure]]
    /\ UNCHANGED <<connVars, chanVars, sockVars, pipes, readerVars, wf,
                   fragVars, posted, panic, histVars>>
    /\ UNCHANGED <<hsVars, cdVars>>

(***************************************************************************)
(* The system.                                                             *)
(***************************************************************************)
Next ==
    \/ RouterReturn
    \/ NextFrame
    \/ NextFrameEOF
    \/ Drain
    \/ ProcessPong
    \/ ProcessPing
    \/ ProcessText
    \/ TextRead
    \/ TextEnd
    \/ ProcessContinuation
    \/ ContRead
    \/ ContEnd
    \/ RouterClose
    \/ ProcessConnectionClose
    \/ CloseReply
    \/ Fault
    \/ \E t \in Tasks : SendClose(t)
    \/ \E t \in Tasks : Closing(t)
    \/ \E t \in Tasks : ClosingWriter(t)
    \/ \E t \in Tasks : SendCloseFrame(t)
    \/ \E t \in Tasks : SendCloseChan(t)
    \/ \E t \in Tasks : SendCloseFlag(t)
    \/ \E t \in Tasks : Destroy(t)
    \/ \E t \in Tasks : DestroyConn(t)
    \/ SendLoop
    \/ WritePayload
    \/ SendMessageLoop
    \/ SendFragment
    \/ AppPost
    \/ AppRecv
    \/ AppRead
    \/ AppClose

Spec == Init /\ [][Next]_vars

(***************************************************************************)
(* The opening handshake.  Header values and keys are strings, written as  *)
(* the sequences of their character codes.                                 *)
(***************************************************************************)
secWSKeyLength == 16
secWSVersion == 13
minProtoMajor == 1
minProtoMinor == 1
StatusSwitchingProtocols == 101
StatusBadRequest == 400
\* capacity of h.Conns
connsCap == 16

\* "258EAFA5-E914-47DA-95CA-C5AB0DC85B11"
guid ==
    <<50, 53, 56, 69, 65, 70, 65, 53, 45, 69, 57, 49, 52, 45, 52, 55, 68,
      65, 45, 57, 53, 67, 65, 45, 67, 53, 65, 66, 48, 68, 67, 56, 53, 66,
      49, 49>>

\* "websocket", "Upgrade"
strWebsocket == <<119, 101, 98, 115, 111, 99, 107, 101, 116>>
strUpgrade == <<85, 112, 103, 114, 97, 100, 101>>
\* "13"
str13 == <<49, 51>>

\* "dGhlIHNhbXBsZSBub25jZQ==", the key of server_test.go: 16 bytes
keySample ==
    <<100, 71, 104, 108, 73, 72, 78, 104, 98, 88, 66, 115, 90, 83, 66, 117,
      98, 50, 53, 106, 90, 81, 61, 61>>

\* "dGhlIHNhbXBsZSBub25j": 15 bytes
keyFifteen ==
    <<100, 71, 104, 108, 73, 72, 78, 104, 98, 88, 66, 115, 90, 83, 66, 117,
      98, 50, 53, 106>>

\* "dGhlIHNhbXBsZSBub25jZQ==x": the 16 bytes of keySample, then a character
\* that does not belong there
keyTrailing ==
    <<100, 71, 104, 108, 73, 72, 78, 104, 98, 88, 66, 115, 90, 83, 66, 117,
      98, 50, 53, 106, 90, 81, 61, 61, 120>>

\* "dGhlIHNhbXBsZSBub25jZ!==": a character outside the alphabet
keyIllegal ==
    <<100, 71, 104, 108, 73, 72, 78, 104, 98, 88, 66, 115, 90, 83, 66, 117,
      98, 50, 53, 106, 90, 33, 61, 61>>

\* the requests a client may send
Protos == {<<1, 0>>, <<1, 1>>}
\* "websocket", "WebSocket", none
UpgradeValues ==
    LET strWebSocketCaps == <<87, 101, 98, 83, 111, 99, 107, 101, 116>>
    IN  {strWebsocket, strWebSocketCaps, <<>>}
\* "Upgrade", "upgrade", "keep-alive"
ConnectionValues ==
    LET strUpgradeLower == <<117, 112, 103, 114, 97, 100, 101>>
        strKeepAlive == <<107, 101, 101, 112, 45, 97, 108, 105, 118, 101>>
    IN  {strUpgrade, strUpgradeLower, strKeepAlive}
\* "13", "8", none, "13a"
VersionValues ==
    LET str8 == <<56>>
        str13a == <<49, 51, 97>>
    IN  {str13, str8, <<>>, str13a}
KeyValues == {keySample, keyFifteen, keyTrailing, keyIllegal, <<>>}

Requests ==
    [proto : Protos, upgrade : UpgradeValues, connection : ConnectionValues,
     version : VersionValues, key : KeyValues]

\* http.Request.ProtoAtLeast
ProtoAtLeast(r, major, minor) ==
    \/ r.proto[1] > major
    \/ r.proto[1] = major /\ r.proto[2] >= minor

\* strings.EqualFold, for characters of ASCII: letters compare without case
ToLower(c) == IF c >= 65 /\ c <= 90 THEN c + 32 ELSE c

EqualFold(a, b) ==
    /\ Len(a) = Len(b)
    /\ \A i \in 1..Len(a) : ToLower(a[i]) = ToLower(b[i])

\* strconv.Atoi: an optional sign, then decimal digits and nothing else
IsDigit(c) == c >= 48 /\ c <= 57

RECURSIVE DigitsValue(_)
DigitsValue(ds) ==
    IF ds = <<>> THEN 0
    ELSE 10 * DigitsValue(SubSeq(ds, 1, Len(ds) - 1)) + (ds[Len(ds)] - 48)

Atoi(a) ==
    LET signed == a # <<>> /\ a[1] \in {43, 45}
        ds == IF signed THEN Tail(a) ELSE a
    IN  IF ds = <<>> \/ \E i \in 1..Len(ds) : ~IsDigit(ds[i])
           THEN [v |-> 0, err |-> "ErrSyntax"]
           ELSE [v |-> IF signed /\ a[1] = 45 THEN 0 - DigitsValue(ds)
                                              ELSE DigitsValue(ds),
                 err |-> "nil"]

\* strconv.Itoa, for n >= 0
RECURSIVE Itoa(_)
Itoa(n) ==
    IF n < 10 THEN <<48 + n>>
    ELSE Append(Itoa(n \div 10), 48 + (n % 10))

\* strings.TrimSpace, for characters of ASCII
IsSpace(c) == c \in {9, 10, 11, 12, 13, 32}

RECURSIVE TrimSpace(_)
TrimSpace(a) ==
    IF a = <<>> THEN a
    ELSE IF IsSpace(a[1]) THEN TrimSpace(Tail(a))
    ELSE IF IsSpace(a[Len(a)]) THEN TrimSpace(SubSeq(a, 1, Len(a) - 1))
    ELSE a

\* base64.StdEncoding: the characters of the alphabet, and the padding "="
IsBase64(c) ==
    \/ c >= 65 /\ c <= 90
    \/ c >= 97 /\ c <= 122
    \/ c >= 48 /\ c <= 57
    \/ c \in {43, 47}

padChar == 61

\* one quantum of base64 decoding: up to four characters from place si on.
\* si is the place after it, ninc the number of bytes it gave, err whether
\* the input is corrupt.  With padding the quantum is the last one: what
\* follows it is an error, reported together with the bytes of the quantum.
decodeQuantum(src, si) ==
    LET has(j) == si + j <= Len(src)
        ch(j) == src[si + j]
        good(j) == has(j) /\ IsBase64(ch(j))
        pad(j) == has(j) /\ ch(j) = padChar
        corrupt == [si |-> si, ninc |-> 0, err |-> TRUE]
    IN  IF ~(good(0) /\ good(1)) THEN corrupt
        ELSE IF good(2)
           THEN IF good(3) THEN [si |-> si + 4, ninc |-> 3, err |-> FALSE]
                ELSE IF pad(3)
                   THEN [si |-> si + 4, ninc |-> 2, err |-> has(4)]
                ELSE corrupt
        ELSE IF pad(2) /\ pad(3)
           THEN [si |-> si + 4, ninc |-> 1, err |-> has(4)]
        ELSE corrupt

\* base64.StdEncoding.DecodeString: n is the length of the bytes it
\* returns, which are those decoded before the error when there is one
RECURSIVE decode(_, _, _)
decode(src, si, n) ==
    IF si > Len(src) THEN [n |-> n, err |-> FALSE]
    ELSE LET q == decodeQuantum(src, si)
         IN  IF q.err THEN [n |-> n + q.ninc, err |-> TRUE]
             ELSE decode(src, q.si, n + q.ninc)

DecodeString(a) == decode(a, 1, 0)

\* base64.StdEncoding.EncodeToString(h.Sum(nil)) after h.Write(key + guid):
\* the token is known by what was hashed
AcceptToken(key) == [base64 |-> [sha1 |-> key \o guid]]

NoToken == [base64 |-> [sha1 |-> <<>>]]

\* validateSecWebSocketKey: the error of DecodeString is dropped, and the
\* err that is tested is the result parameter, which is still nil
validateSecWebSocketKey(key) ==
    LET decodedKey == DecodeString(key)
        err == "nil"
    IN  IF err # "nil" \/ decodedKey.n # secWSKeyLength
           THEN [secWSAccept |-> NoToken, err |-> "errMalformedSecWSKey"]
           ELSE [secWSAccept |-> AcceptToken(key), err |-> "nil"]

\* wsClientHandshake
wsClientHandshake(r) ==
    LET malformed == [secWSAccept |-> NoToken,
                      err |-> "errMalformedClientHandshake"]
        clientSecWSVersion == Atoi(r.version)
    IN  IF ~ProtoAtLeast(r, minProtoMajor, minProtoMinor) THEN malformed
        ELSE IF ~(/\ EqualFold(r.upgrade, strWebsocket)
                  /\ EqualFold(r.connection, strUpgrade)) THEN malformed
        ELSE IF ~(/\ clientSecWSVersion.err = "nil"
                  /\ clientSecWSVersion.v = secWSVersion) THEN malformed
        ELSE validateSecWebSocketKey(TrimSpace(r.key))

(***************************************************************************)
(* Handler.ServeHTTP, for one request after the other.  The number of a    *)
(* request is its place in hsLog, and its Conn has the same number.        *)
(***************************************************************************)
\* a request comes in and the server calls ServeHTTP
Arrive ==
    /\ hsPc = "idle"
    /\ Len(hsLog) < MaxRequests
    /\ \E r \in Requests : req' = r
    /\ hsPc' = "serve"
    /\ UNCHANGED <<hsLog, hijacked, crlf, created, Conns, started, connAll,
                   cdVars>>

\* ServeHTTP: wsClientHandshake, the header, w.WriteHeader(status)
ServeHTTP ==
    /\ hsPc = "serve"
    /\ LET h == wsClientHandshake(req)
       IN  hsLog' = Append(hsLog,
             IF h.err # "nil"
                THEN [req |-> req, status |-> StatusBadRequest,
                      header |-> {<<"Sec-WebSocket-Version",
                                    Itoa(secWSVersion)>>}]
                ELSE [req |-> req, status |-> StatusSwitchingProtocols,
                      header |-> {<<"Upgrade", strWebsocket>>,
                                  <<"Connection", strUpgrade>>,
                                  <<"Sec-WebSocket-Accept", h.secWSAccept>>}])
    /\ hsPc' = "hijack"
    /\ UNCHANGED <<req, hijacked, crlf, created, Conns, started, connAll,
                   cdVars>>

\* ServeHTTP: w.(http.Hijacker) and hj.Hijack(); log.Fatal ends the process
\* when one of them fails
Hijack ==
    /\ hsPc = "hijack"
    /\ \/ /\ hijacked' = hijacked \cup {Len(hsLog)}
          /\ hsPc' = "crlf"
       \/ /\ hijacked' = hijacked
          /\ hsPc' = "fatal"
    /\ UNCHANGED <<req, hsLog, crlf, created, Conns, started, connAll,
                   cdVars>>

\* ServeHTTP: rw.WriteString("\r\n") and rw.Flush()
WriteCRLF ==
    /\ hsPc = "crlf"
    /\ crlf' = crlf \cup {Len(hsLog)}
    /\ hsPc' = "newConn"
    /\ UNCHANGED <<req, hsLog, hijacked, created, Conns, started, connAll,
                   cdVars>>

\* ServeHTTP: c := newConn(conn)
NewConn ==
    /\ hsPc = "newConn"
    /\ created' = created \cup {Len(hsLog)}
    /\ hsPc' = "publish"
    /\ UNCHANGED <<req, hsLog, hijacked, crlf, Conns, started, connAll,
                   cdVars>>

\* ServeHTTP: h.Conns <- c
Publish ==
    /\ hsPc = "publish"
    /\ Len(Conns) < connsCap
    /\ Conns' = Append(Conns, Len(hsLog))
    /\ hsPc' = "start"
    /\ UNCHANGED <<req, hsLog, hijacked, crlf, created, started, connAll,
                   cdVars>>

\* ServeHTTP: c.start()
Start ==
    /\ hsPc = "start"
    /\ started' = started \cup {Len(hsLog)}
    /\ hsPc' = "idle"
    /\ UNCHANGED <<req, hsLog, hijacked, crlf, created, Conns, connAll,
                   cdVars>>

HsNext ==
    \/ Arrive
    \/ ServeHTTP
    \/ Hijack
    \/ WriteCRLF
    \/ NewConn
    \/ Publish
    \/ Start

HandshakeSpec == Init /\ [][HsNext]_vars

(***************************************************************************)
(* The codec on its own: newFrameHeader, frameHeader.Bytes,                *)
(* parseFrameHeader and frame.readPayloadTo, each given inputs from a      *)
(* bounded set.  A stream is the sequence of the bytes a reader has        *)
(* before it ends.                                                         *)
(***************************************************************************)
maskBit == 128
payloadLength7 == 127

\* io.ReadFull(r, buf) with len(buf) = n, after pos bytes of s were read:
\* the bytes it got, and nil, io.EOF (it got none) or io.ErrUnexpectedEOF
ReadFull(s, pos, n) ==
    LET avail == Len(s) - pos
    IN  IF avail >= n
           THEN [bytes |-> SubSeq(s, pos + 1, pos + n), err |-> "nil"]
        ELSE IF avail <= 0 THEN [bytes |-> <<>>, err |-> "EOF"]
        ELSE [bytes |-> SubSeq(s, pos + 1, Len(s)), err |-> "ErrUnexpectedEOF"]

\* binary.BigEndian: the uint16 of two bytes
Uint16(bs) == bs[1] * 256 + bs[2]

\* binary.Read into an int64: the eight bytes as a two's complement number
RECURSIVE Int64(_)
Int64(bs) ==
    IF Len(bs) = 1 THEN (IF bs[1] >= 128 THEN bs[1] - 256 ELSE bs[1])
    ELSE Int64(SubSeq(bs, 1, Len(bs) - 1)) * 256 + bs[Len(bs)]

\* maskingKey = make([]byte, 4) after an io.ReadFull that got bs
KeyBuffer(bs) == bs \o SubSeq(<<0, 0, 0, 0>>, 1, 4 - Len(bs))

\* parseFrameHeader(r) for a reader r that has the bytes s: the header
\* (hasFh is FALSE for nil), the error, and the number n of bytes read
parseFrameHeader(s) ==
    LET none(e, n) == [hasFh |-> FALSE, fh |-> NoHeader, err |-> e, n |-> n]
        op == ReadFull(s, 0, 2)
    IN  IF op.err # "nil" THEN none(op.err, Len(op.bytes))
        ELSE IF And8(rsvMask, op.bytes[1]) # 0
            THEN none("errMalformedFrameHeader", 2)
        ELSE
        LET length7 == And8(op.bytes[2], payloadLength7)
            masked == And8(op.bytes[2], maskBit) # 0
            lenLen == IF length7 = 126 THEN 2 ELSE IF length7 = 127 THEN 8 ELSE 0
            ext == ReadFull(s, 2, lenLen)
        IN  IF ext.err # "nil"
               THEN none("ErrUnexpectedEOF", 2 + Len(ext.bytes))
            \* "if payloadLength < 126" is tested before payloadLength is
            \* given the 16-bit length: it still holds the 126 of the header
            ELSE IF length7 = 126 /\ length7 < 126
               THEN none("errMalformedFrameHeader", 4)
            ELSE
            LET payloadLength == IF length7 = 126 THEN Uint16(ext.bytes)
                                 ELSE IF length7 = 127 THEN Int64(ext.bytes)
                                 ELSE length7
            IN  IF length7 = 127 /\ payloadLength <= MaxUint16
                   THEN none("errMalformedFrameHeader", 10)
                ELSE
                \* the error of the io.ReadFull of the masking key is
                \* overwritten by the result of newFrameHeader
                LET key == IF masked THEN ReadFull(s, 2 + lenLen, 4)
                                     ELSE [bytes |-> <<>>, err |-> "nil"]
                    maskingKey == IF masked THEN KeyBuffer(key.bytes) ELSE <<>>
                    f == And8(op.bytes[1], fin) # 0
                    opCode == And8(op.bytes[1], opCodeMask)
                    e == newFrameHeaderErr(f, opCode, payloadLength, maskingKey)
                    n == 2 + lenLen + Len(key.bytes)
                IN  IF e # "nil" THEN none(e, n)
                    ELSE [hasFh |-> TRUE,
                          fh |-> newFrameHeader(f, opCode, payloadLength,
                                                maskingKey),
                          err |-> "nil", n |-> n]

\* arguments of newFrameHeader
CodecOpCodes == {0, 1, 2, 3, 8, 9, 10, 11}
CodecLengths == {-1, 0, 1, 125, 126, 127, 65535, 65536, 2147483647}
CodecKeys == {<<>>, PeerKey, <<1, 2, 3>>}

HeaderInputs ==
    {[kind |-> "new", fin |-> f, opCode |-> op, payloadLength |-> n,
      maskingKey |-> k, stream |-> <<>>, plain |-> <<>>] :
        f \in BOOLEAN, op \in CodecOpCodes, n \in CodecLengths, k \in CodecKeys}

\* the first byte of a header on the wire: text, continuation, binary and
\* the control frames with and without fin, opcode 3, and text with RSV1
FirstBytes == {129, 1, 128, 0, 130, 136, 137, 138, 8, 9, 131, 193}

\* the 7-bit length of a header on the wire and its extended length
WireLengths ==
    {<<0, <<>>>>, <<5, <<>>>>, <<125, <<>>>>,
     <<126, <<0, 0>>>>, <<126, <<0, 125>>>>, <<126, <<0, 126>>>>,
     <<126, <<255, 255>>>>,
     <<127, <<0, 0, 0, 0, 0, 0, 0, 5>>>>,
     <<127, <<0, 0, 0, 0, 0, 0, 255, 255>>>>,
     <<127, <<0, 0, 0, 0, 0, 1, 0, 0>>>>,
     <<127, <<0, 0, 0, 0, 127, 255, 255, 255>>>>,
     <<127, <<255, 255, 255, 255, 255, 255, 255, 255>>>>,
     <<127, <<255, 255, 255, 255, 128, 0, 0, 0>>>>}

\* a header on the wire, with or without a masking key, followed by one
\* byte of payload or by nothing
WireHeaders ==
    {<<b0, wl[1] + (IF m THEN maskBit ELSE 0)>> \o wl[2]
        \o (IF m THEN PeerKey ELSE <<>>) \o tail :
        b0 \in FirstBytes, wl \in WireLengths, m \in BOOLEAN,
        tail \in {<<>>, <<72>>}}

\* the first k bytes of w, or all of w when it has fewer
Prefix(w, k) == SubSeq(w, 1, IF k > Len(w) THEN Len(w) ELSE k)

\* the streams given to parseFrameHeader: these headers, and what is left
\* of them when the stream ends earlier
StreamInputs ==
    {[kind |-> "parse", fin |-> FALSE, opCode |-> 0, payloadLength |-> 0,
      maskingKey |-> <<>>, stream |-> Prefix(w, k), plain |-> <<>>] :
        w \in WireHeaders, k \in 0..MaxHeaderLen}

\* "Hello!"
strHello == <<72, 101, 108, 108, 111, 33>>

\* frames given to readPayloadTo: payloadLength is what the header declares,
\* plain the payload the peer means to send, stream the bytes the source
\* has: plain as it is, or masked with the key of the header
PayloadInputs ==
    {[kind |-> "read", fin |-> TRUE, opCode |-> opCodeText, payloadLength |-> n,
      maskingKey |-> k,
      stream |-> IF k = <<>> THEN Prefix(strHello, p)
                 ELSE MaskBytes(Prefix(strHello, p), k, 0),
      plain |-> Prefix(strHello, p)] :
        n \in 0..MaxPayload, p \in 0..MaxPayload,
        k \in {<<>>, PeerKey, <<0, 255, 1, 128>>}}

CodecInputs == HeaderInputs \cup StreamInputs \cup PayloadInputs

CodecInit ==
    /\ ConnInit
    /\ HsIdle
    /\ cdIn \in CodecInputs
    /\ cdOut = NoOutput

\* newFrameHeader(fin, opCode, payloadLength, maskingKey)
CallNewFrameHeader ==
    /\ cdIn.kind = "new"
    /\ cdOut.step = "none"
    /\ LET e == newFrameHeaderErr(cdIn.fin, cdIn.opCode, cdIn.payloadLength,
                                  cdIn.maskingKey)
       IN  cdOut' = [cdOut EXCEPT
                        !.step = "new",
                        !.err = e,
                        !.hasFh = (e = "nil"),
                        !.fh = IF e = "nil"
                                  THEN newFrameHeader(cdIn.fin, cdIn.opCode,
                                           cdIn.payloadLength, cdIn.maskingKey)
                                  ELSE NoHeader]
    /\ UNCHANGED <<cdIn, connAll, hsVars>>

\* newFrameHeader of the earlier file on the same arguments
CallNewFrameHeaderEarlier ==
    /\ cdIn.kind = "new"
    /\ cdOut.step = "none"
    /\ LET e == newFrameHeaderErrEarlier(cdIn.fin, cdIn.opCode,
                                         cdIn.payloadLength, cdIn.maskingKey)
       IN  cdOut' = [cdOut EXCEPT
                        !.step = "newEarlier",
                        !.err = e,
                        !.hasFh = (e = "nil"),
                        !.fh = IF e = "nil"
                                  THEN newFrameHeader(cdIn.fin, cdIn.opCode,
                                           cdIn.payloadLength, cdIn.maskingKey)
                                  ELSE NoHeader]
    /\ UNCHANGED <<cdIn, connAll, hsVars>>

\* fh.Bytes() for the header newFrameHeader returned
CallBytes ==
    /\ cdOut.step = "new"
    /\ cdOut.hasFh
    /\ cdOut' = [cdOut EXCEPT !.step = "bytes", !.bytes = Bytes(cdOut.fh)]
    /\ UNCHANGED <<cdIn, connAll, hsVars>>

\* parseFrameHeader on a reader that has the bytes of fh.Bytes()
CallParseBack ==
    /\ cdOut.step = "bytes"
    /\ LET r == parseFrameHeader(cdOut.bytes)
       IN  cdOut' = [cdOut EXCEPT !.step = "back", !.hasFh = r.hasFh,
                                  !.fh = r.fh, !.err = r.err, !.n = r.n]
    /\ UNCHANGED <<cdIn, connAll, hsVars>>

\* parseFrameHeader on a reader that has the bytes of the stream
CallParseFrameHeader ==
    /\ cdIn.kind = "parse"
    /\ cdOut.step = "none"
    /\ LET r == parseFrameHeader(cdIn.stream)
       IN  cdOut' = [cdOut EXCEPT !.step = "parse", !.hasFh = r.hasFh,
                                  !.fh = r.fh, !.err = r.err, !.n = r.n]
    /\ UNCHANGED <<cdIn, connAll, hsVars>>

\* f.readPayloadTo(w) for a sink w that takes every byte
CallReadPayloadTo ==
    /\ cdIn.kind = "read"
    /\ cdOut.step = "none"
    /\ LET f == newFrame(newFrameHeader(cdIn.fin, cdIn.opCode,
                             cdIn.payloadLength, cdIn.maskingKey), cdIn.stream)
           r == readPayloadTo(f)
       IN  cdOut' = [cdOut EXCEPT !.step = "read", !.err = r.err, !.n = r.n,
                                  !.data = r.data]
    /\ UNCHANGED <<cdIn, connAll, hsVars>>

CodecNext ==
    \/ CallNewFrameHeader
    \/ CallNewFrameHeaderEarlier
    \/ CallBytes
    \/ CallParseBack
    \/ CallParseFrameHeader
    \/ CallReadPayloadTo

CodecSpec == CodecInit /\ [][CodecNext]_vars

(***************************************************************************)
(* Properties.  They are stated over the histories: wireLog (what the      *)
(* peer sent), sendLog (what was put on c.send), written (what the peer    *)
(* got), and the counts of what the application did.                       *)
(***************************************************************************)
\* entry e of wireLog is a whole frame of opcode op that the router parsed
Parsed(e, op) ==
    /\ ~e.lost
    /\ e.frame.opCode = op
    /\ ~IsShort(e.frame)
    /\ newFrameHeaderErr(e.frame.fin, e.frame.opCode, e.frame.payloadLength,
                         e.frame.maskingKey) = "nil"

\* entry e of wireLog is a whole frame of opcode op that the peer sent,
\* parsed or not
Sent(e, op) ==
    /\ e.frame.opCode = op
    /\ ~IsShort(e.frame)
    /\ newFrameHeaderErr(e.frame.fin, e.frame.opCode, e.frame.payloadLength,
                         e.frame.maskingKey) = "nil"

\* the steps of Conn.start after router has returned an error
FaultLabels == {"fault", "closing", "closingWriter", "destroy", "destroyConn",
                "done"}

\* C1: the peer sends a close frame on an open connection on which the
\* server has sent none (the application posts nothing and does not call
\* Close): once router and sendLoop have ended, the peer has got exactly
\* the bytes 88 02 03 E8 and the socket is closed.
C1_PeerCloseAnswered ==
    (/\ panic = "nil"
     /\ closeCalls = 0
     /\ posted = 0
     /\ Len(wireLog) = 1
     /\ Parsed(wireLog[1], opCodeConnectionClose)
     /\ pc["reader"] = "done"
     /\ pc["writer"] = "done")
    => (/\ written = <<HdrBuf(<<136, 2>>), RawBuf(<<3, 232>>)>>
        /\ connClosed)

\* C2: the application calls Close on an open connection, the close frame
\* 1000 reaches the peer, and the peer then sends its close frame: once the
\* router has ended (or the process has), the connection is CLOSED, Cleanly
\* is true and the socket is closed.
C2_CloseThenPeerClose ==
    (/\ closeCalls = 1
     /\ posted = 0
     /\ Len(wireLog) = 1
     /\ Parsed(wireLog[1], opCodeConnectionClose)
     /\ wireLog[1].wr = 2
     /\ written = <<HdrBuf(<<136, 2>>), RawBuf(<<3, 232>>)>>
     /\ (pc["reader"] = "done" \/ panic # "nil"))
    => (/\ State = CLOSED
        /\ Cleanly
        /\ connClosed)

\* C3: Cleanly is true only when a close frame was both sent and received.
C3_CleanlyMeansHandshake == Cleanly => (closeSent /\ closeRecieved)

\* C3: a connection that was closed cleanly
C3_ClosedCleanly == State = CLOSED /\ Cleanly /\ connClosed

\* C4: router fails on a connection on which no close frame was sent or
\* received and Close was not called: when Conn.start has dealt with the
\* error, the connection is CLOSED, Cleanly is false, In is closed and the
\* socket is closed.
C4_FaultEndsUnclean ==
    (/\ pc["reader"] = "done"
     /\ rerr # "nil"
     /\ ~closeSent
     /\ ~closeRecieved
     /\ closeCalls = 0)
    => (/\ State = CLOSED
        /\ ~Cleanly
        /\ inClosed
        /\ connClosed)

\* C4: Conn.start has dealt with a continuation frame that came without a
\* message in progress
C4_FaultHandled ==
    /\ pc["reader"] = "done"
    /\ rerr = "errConnection 1002"
    /\ ~closeSent
    /\ ~closeRecieved
    /\ closeCalls = 0
    /\ Len(wireLog) = 1
    /\ State = CLOSED

\* C5: when the peer breaks the protocol (a header newFrameHeader refuses,
\* a continuation frame without a message in progress) before any close
\* frame, a close frame with status 1002 has been put on c.send by the time
\* Conn.start is done with the error.
C5_ProtocolErrorSendsClose ==
    (/\ pc["reader"] = "done"
     /\ rerr \in {"errConnection 1002", "errMalformedFrameHeader"}
     /\ ~peerEnd
     /\ ~closeRecieved
     /\ closeCalls = 0)
    => (\E k \in 1..Len(sendLog) :
            /\ sendLog[k].header.opCode = opCodeConnectionClose
            /\ SubSeq(sendLog[k].payload.bytes, 1, 2) = <<3, 234>>)

\* C6: c.in is never closed a second time.
C6_InClosedOnce == panic # "close of closed channel c.in"

\* C7: no frame is put on c.send after c.send was closed.
C7_NoSendAfterClose == panic # "send on closed channel c.send"

\* C8: the peer sends a message in two frames, a text or binary frame
\* without fin and a continuation frame with fin: when the router is back
\* at the head of its loop, one reader was put on In, it has given the two
\* payloads one after the other, and it is at EOF.
C8_FragmentsMakeOneMessage ==
    (/\ panic = "nil"
     /\ closeCalls = 0
     /\ Len(wireLog) = 2
     /\ \E op \in {opCodeText, opCodeBinary} : Sent(wireLog[1], op)
     /\ ~wireLog[1].frame.fin
     /\ Sent(wireLog[2], opCodeContinuation)
     /\ wireLog[2].frame.fin
     /\ pc["reader"] = "router")
    => (/\ Len(pipes) = 1
        /\ pipes[1].taken \/ inQ = <<1>>
        /\ pipes[1].pending = <<>>
        /\ pipes[1].data = wireLog[1].frame.plain \o wireLog[2].frame.plain
        /\ pipes[1].status = "EOF")

\* the pong frames put on c.send, in order
Pongs == SelectSeq(sendLog, LAMBDA f : f.header.opCode = opCodePong)

\* C9: the peer sends a ping between the two fragments of a message, and
\* Close is not called: when the router is back at the head of its loop,
\* exactly one pong was put on c.send, with the payload of the ping, and the
\* message given to the application is the two fragments, as without the
\* ping.
C9_PingBetweenFragments ==
    (/\ panic = "nil"
     /\ closeCalls = 0
     /\ Len(wireLog) = 3
     /\ \E op \in {opCodeText, opCodeBinary} : Sent(wireLog[1], op)
     /\ ~wireLog[1].frame.fin
     /\ Sent(wireLog[2], opCodePing)
     /\ Sent(wireLog[3], opCodeContinuation)
     /\ wireLog[3].frame.fin
     /\ pc["reader"] = "router")
    => (/\ Pongs = <<newFrame(newFrameHeader(TRUE, opCodePong,
                                             Len(wireLog[2].frame.plain), <<>>),
                              RawBuf(wireLog[2].frame.plain))>>
        /\ Len(pipes) = 1
        /\ pipes[1].data = wireLog[1].frame.plain \o wireLog[3].frame.plain
        /\ pipes[1].status = "EOF")

\* C10: the peer sends a text or binary frame without fin and then another
\* text or binary frame: once the router has looked at the second, no
\* second reader was made and Conn.start is ending the connection.
C10_TextInsideMessage ==
    (/\ panic = "nil"
     /\ closeCalls = 0
     /\ Len(wireLog) = 2
     /\ \E op \in {opCodeText, opCodeBinary} : Parsed(wireLog[1], op)
     /\ ~wireLog[1].frame.fin
     /\ \E op \in {opCodeText, opCodeBinary} : Parsed(wireLog[2], op)
     /\ pc["reader"] # "processText")
    => (/\ Len(pipes) = 1
        /\ pc["reader"] \in FaultLabels)

FrameChunks(f) ==
    <<HdrBuf(Bytes(f.header))>>
        \o (IF f.header.payloadLength > 0 THEN <<f.payload>> ELSE <<>>)

\* what sendLoop writes for the frames fs, one after the other
RECURSIVE WireOf(_)
WireOf(fs) ==
    IF fs = <<>> THEN <<>> ELSE FrameChunks(Head(fs)) \o WireOf(Tail(fs))

IsPrefix(a, b) == Len(a) <= Len(b) /\ SubSeq(b, 1, Len(a)) = a

\* the payload length that the bytes hb of a header declare
DeclaredLen(hb) ==
    IF hb[2] < 126 THEN hb[2]
    ELSE IF hb[2] = 126 THEN 256 * hb[3] + hb[4]
    ELSE 16777216 * hb[7] + 65536 * hb[8] + 256 * hb[9] + hb[10]

DataFrames == SelectSeq(sendLog, LAMBDA f : f.payload.kind = "msg")

\* C13: the data frames of each message of Out are a text frame followed by
\* continuation frames, fin is on the last of them and on no other, and the
\* frames of the next message come after that fin frame.
C13_FragmentsWellFormed ==
    /\ \A k \in 1..Len(DataFrames) :
          LET f == DataFrames[k]
              first == k = 1 \/ DataFrames[k - 1].payload.bytes[1] # f.payload.bytes[1]
          IN  /\ f.header.opCode = IF first THEN opCodeText ELSE opCodeContinuation
              /\ ~first => ~DataFrames[k - 1].header.fin
              /\ (first /\ k > 1) => DataFrames[k - 1].header.fin
    /\ (pc["frag"] \in {"sendMessageLoop", "done"} /\ DataFrames # <<>>)
          => DataFrames[Len(DataFrames)].header.fin

\* the router is not inside processText or processContinuation
BetweenDataFrames ==
    pc["reader"] \notin {"processText", "textRead", "textEnd",
                         "processContinuation", "contRead", "contEnd"}

\* C14: a reader of In is at EOF only if every frame read for its message
\* came with all the payload bytes its header declares and the last of them
\* had fin; and when the stream ended inside the payload of one of them, the
\* reader has the error ErrUnexpectedEOF once router is done with the frame.
C14_EOFOnlyWhenComplete ==
    \A p \in 1..Len(pipes) :
        LET fed == pipes[p].fed
            short == \E k \in 1..Len(fed) : IsShort(wireLog[fed[k]].frame)
        IN  /\ pipes[p].status = "EOF"
               => (/\ fed # <<>>
                   /\ ~short
                   /\ wireLog[fed[Len(fed)]].frame.fin)
            /\ (short /\ BetweenDataFrames /\ panic = "nil")
               => pipes[p].status = "ErrUnexpectedEOF"

\* C15: when a write of the Writer to the byte stream has failed, the Writer
\* stops, and once it and the Reader have ended the connection is CLOSED,
\* not cleanly, with the byte stream closed.
C15_WriteFailureEndsUnclean ==
    (/\ werr
     /\ pc["writer"] = "done"
     /\ pc["reader"] = "done"
     /\ panic = "nil")
    => (State = CLOSED /\ ~Cleanly /\ connClosed)

\* C16: once an invocation of destroy has closed the connection (in server
\* role it closes the socket as it sets CLOSED), a later invocation that
\* gets to the body of destroy leaves State, Cleanly and the socket as they
\* are; and destroy(true) without both close flags does nothing at all.
C16_DestroyIdempotent ==
    [][\A t \in Tasks :
         /\ (/\ pc[t] = "destroyConn"
             /\ pc'[t] # "destroyConn"
             /\ connClosed)
            => (State' = State /\ Cleanly' = Cleanly /\ connClosed' = connClosed)
         /\ (/\ pc[t] = "destroy"
             /\ pc'[t] # "destroy"
             /\ arg[t].clean
             /\ ~(closeRecieved /\ closeSent))
            => (/\ pc'[t] # "destroyConn"
                /\ UNCHANGED <<connVars, chanVars, sockVars, pipes>>)]_vars

\* no goroutine is on its way into or inside c.closing()
ClosingDone ==
    \A t \in Tasks :
        pc[t] \notin {"closeReply", "sendClose", "fault", "closing",
                      "closingWriter"}

\* C17: once the connection has entered CLOSING and closing() has run, In
\* is closed, and the reader of the newest inbound message is not left
\* open: if the message was in progress it has got ErrUnexpectedEOF.
C17_ClosingFailsMessage ==
    (/\ State \in {CLOSING, CLOSED}
     /\ ClosingDone
     /\ BetweenDataFrames
     /\ panic = "nil")
    => (/\ inClosed
        /\ pipes # <<>> => pipes[Len(pipes)].status # "open")

\* C18: the server has closed the byte stream only if State is CLOSED, and
\* it closes it in the step that sets CLOSED: at every moment the socket is
\* closed exactly when the connection is CLOSED.
C18_StreamClosedIffClosed ==
    panic = "nil" => (connClosed <=> State = CLOSED)

\* the requests for which ServeHTTP has made, published or started a Conn
WithConn == created \cup {Conns[i] : i \in 1..Len(Conns)} \cup started

\* C19: a Conn is made by newConn, put on h.Conns and started only for a
\* request that was answered with 101; a request answered with 400 has no
\* Conn on h.Conns.
C19_ConnOnlyAfter101 ==
    \A k \in WithConn : hsLog[k].status = StatusSwitchingProtocols

\* the four checks of the handshake, on the request as the client sent it
FourChecks(r) ==
    /\ ProtoAtLeast(r, 1, 1)
    /\ EqualFold(r.upgrade, strWebsocket) /\ EqualFold(r.connection, strUpgrade)
    /\ r.version = str13
    /\ LET d == DecodeString(r.key) IN ~d.err /\ d.n = 16

\* C20: a request is answered with 101 and the accept token of its key if
\* and only if it passes the four checks; every other request is answered
\* with 400 and the header Sec-WebSocket-Version: 13.
C20_AcceptedIffFourChecks ==
    \A k \in 1..Len(hsLog) :
        LET e == hsLog[k]
        IN  /\ e.status = StatusSwitchingProtocols <=> FourChecks(e.req)
            /\ e.status = StatusSwitchingProtocols
               => <<"Sec-WebSocket-Accept", AcceptToken(e.req.key)>> \in e.header
            /\ e.status # StatusSwitchingProtocols
               => (/\ e.status = StatusBadRequest
                   /\ <<"Sec-WebSocket-Version", str13>> \in e.header)

(***************************************************************************)
(* Properties of the codec.  A header on the wire is read here by          *)
(* arithmetic on its bytes, as the format defines it.                      *)
(***************************************************************************)
WireFin(s) == s[1] >= 128
WireRsv(s) == (s[1] \div 16) % 8
WireOp(s) == s[1] % 16
WireMasked(s) == s[2] >= 128
WireLen7(s) == s[2] % 128
WireLenLen(s) == IF WireLen7(s) = 126 THEN 2 ELSE IF WireLen7(s) = 127 THEN 8 ELSE 0
WireHeaderLen(s) == 2 + WireLenLen(s) + (IF WireMasked(s) THEN 4 ELSE 0)
\* the stream has the whole header
WireComplete(s) == Len(s) >= 2 /\ Len(s) >= WireHeaderLen(s)
\* the payload length a whole header declares, the 64-bit one read as signed
WireLength(s) ==
    IF WireLen7(s) = 126 THEN s[3] * 256 + s[4]
    ELSE IF WireLen7(s) = 127 THEN Int64(SubSeq(s, 3, 10))
    ELSE WireLen7(s)

ControlOpCodes == {opCodeConnectionClose, opCodePing, opCodePong}

\* C21: for the opcodes close, ping and pong, newFrameHeader and
\* parseFrameHeader refuse a header as malformed when fin is false or the
\* payload length is above 125, and accept it when fin is true and the
\* length is between 0 and 125 (with a masking key of four bytes or none,
\* no RSV bit, and the length in the 7-bit field).
C21_ControlFrameRule ==
    /\ (cdOut.step = "new" /\ cdIn.opCode \in ControlOpCodes)
       => (/\ (~cdIn.fin \/ cdIn.payloadLength > 125)
              => (cdOut.err = "errMalformedFrameHeader" /\ ~cdOut.hasFh)
           /\ (/\ cdIn.fin
               /\ cdIn.payloadLength >= 0
               /\ cdIn.payloadLength <= 125
               /\ Len(cdIn.maskingKey) \in {0, 4})
              => (cdOut.err = "nil" /\ cdOut.hasFh))
    /\ (/\ cdOut.step = "parse"
        /\ WireComplete(cdIn.stream)
        /\ WireOp(cdIn.stream) \in ControlOpCodes)
       => (/\ (~WireFin(cdIn.stream) \/ WireLength(cdIn.stream) > 125)
              => (cdOut.err = "errMalformedFrameHeader" /\ ~cdOut.hasFh)
           /\ (/\ WireFin(cdIn.stream)
               /\ WireRsv(cdIn.stream) = 0
               /\ WireLen7(cdIn.stream) <= 125)
              => (/\ cdOut.err = "nil"
                  /\ cdOut.hasFh
                  /\ cdOut.fh.payloadLength = WireLen7(cdIn.stream)))

\* a ping of 126 bytes, with fin, was given to parseFrameHeader and refused
C21_BigPingRefused ==
    /\ cdOut.step = "parse"
    /\ cdIn.stream = <<137, 126, 0, 126>>
    /\ cdOut.err = "errMalformedFrameHeader"

\* C22: parseFrameHeader refuses as malformed a header whose length is not
\* in its shortest form: a 16-bit length below 126, and a 64-bit length of
\* 65535 or less.
C22_NonMinimalRefused ==
    (cdOut.step = "parse" /\ WireComplete(cdIn.stream))
    => (/\ (WireLen7(cdIn.stream) = 126 /\ WireLength(cdIn.stream) < 126)
           => (cdOut.err = "errMalformedFrameHeader" /\ ~cdOut.hasFh)
        /\ (WireLen7(cdIn.stream) = 127 /\ WireLength(cdIn.stream) <= MaxUint16)
           => (cdOut.err = "errMalformedFrameHeader" /\ ~cdOut.hasFh))

\* C23: the bytes of a header have one length byte exactly when the payload
\* length is at most 125 (the length itself), three exactly when it is
\* 126..65535 (126 and the length as 16 bits, big-endian), and nine exactly
\* when it is 65536 or more (127 and the length as 64 bits, big-endian).
C23_LengthEncoding ==
    cdOut.step = "bytes"
    => LET L == cdIn.payloadLength
           b == cdOut.bytes
       IN  /\ Len(b) \in {2, 4, 10}
           /\ Len(b) = 2 <=> L <= 125
           /\ Len(b) = 4 <=> (126 <= L /\ L <= 65535)
           /\ Len(b) = 10 <=> L >= 65536
           /\ Len(b) = 2 => b[2] = L
           /\ Len(b) = 4 => (b[2] = 126 /\ b[3] * 256 + b[4] = L)
           /\ Len(b) = 10
              => /\ b[2] = 127
                 /\ \A i \in 3..6 : b[i] = 0
                 /\ ((b[7] * 256 + b[8]) * 256 + b[9]) * 256 + b[10] = L

\* a header with a payload length of 65536 was serialized
C23_Serialized65536 ==
    /\ cdOut.step = "bytes"
    /\ cdIn.payloadLength = 65536
    /\ SubSeq(cdOut.bytes, 2, 10) = <<127, 0, 0, 0, 0, 0, 1, 0, 0>>

\* C24: for every header newFrameHeader accepts, with or without a masking
\* key, the bytes of the header have the MASK bit clear, end with the length
\* (no masking key follows) and have the three RSV bits zero.
C24_NeverMasked ==
    cdOut.step = "bytes"
    => /\ ~WireMasked(cdOut.bytes)
       /\ Len(cdOut.bytes) = 2 + WireLenLen(cdOut.bytes)
       /\ WireRsv(cdOut.bytes) = 0

\* a header that has a masking key was serialized
C24_MaskedHeaderSerialized ==
    /\ cdOut.step = "bytes"
    /\ cdOut.fh.mask
    /\ cdOut.fh.maskingKey = PeerKey
    /\ cdOut.fh.payloadLength = 126

\* C25: for every header h that newFrameHeader accepts without a masking
\* key, parseFrameHeader on the bytes of h returns no error and a header
\* equal to h (fin, opcode, payload length, and no mask), and reads exactly
\* the bytes of h.
C25_RoundTrip ==
    (cdOut.step = "back" /\ cdIn.maskingKey = <<>>)
    => /\ cdOut.err = "nil"
       /\ cdOut.hasFh
       /\ cdOut.fh.fin = cdIn.fin
       /\ cdOut.fh.opCode = cdIn.opCode
       /\ cdOut.fh.payloadLength = cdIn.payloadLength
       /\ cdOut.fh = newFrameHeader(cdIn.fin, cdIn.opCode, cdIn.payloadLength,
                                    cdIn.maskingKey)
       /\ cdOut.n = Len(cdOut.bytes)

\* the header of a final binary frame of 65535 bytes went through Bytes
\* and parseFrameHeader
C25_BinaryHeaderBack ==
    /\ cdOut.step = "back"
    /\ cdIn.maskingKey = <<>>
    /\ cdIn.fin
    /\ cdIn.opCode = opCodeBinary
    /\ cdIn.payloadLength = 65535
    /\ cdOut.bytes = <<130, 126, 255, 255>>

\* the stream ends inside the header, and no byte before the end makes
\* the header malformed
EndsInsideHeader(s) ==
    /\ Len(s) >= 1
    /\ ~WireComplete(s)
    /\ Len(s) >= 2 => WireRsv(s) = 0
    /\ (Len(s) >= 2 /\ Len(s) >= 2 + WireLenLen(s) /\ WireLen7(s) = 127)
       => WireLength(s) > MaxUint16

\* C26: parseFrameHeader returns io.EOF exactly when the stream has no byte;
\* when the stream ends after at least one byte and before the end of the
\* header (in the first two bytes, the extended length or the masking key)
\* it returns io.ErrUnexpectedEOF and no header.
C26_EndOfStreamErrors ==
    cdOut.step = "parse"
    => /\ cdOut.err = "EOF" <=> cdIn.stream = <<>>
       /\ EndsInsideHeader(cdIn.stream)
          => (cdOut.err = "ErrUnexpectedEOF" /\ ~cdOut.hasFh)

\* C27: readPayloadTo returns io.ErrUnexpectedEOF whenever the payload
\* source has fewer bytes than the header's payload length, with and
\* without masking key; it returns nil only when exactly that many bytes
\* went to the sink; for a payload length of 0 it returns nil and writes
\* nothing.
C27_ShortPayloadReported ==
    cdOut.step = "read"
    => /\ Len(cdIn.stream) < cdIn.payloadLength
          => cdOut.err = "ErrUnexpectedEOF"
       /\ cdOut.err = "nil" => Len(cdOut.data) = cdIn.payloadLength
       /\ cdIn.payloadLength = 0 => (cdOut.err = "nil" /\ cdOut.data = <<>>)

\* C28: for a frame with a masking key whose source has the payload, byte
\* i the sink gets (counted from 0) is source byte i XOR key byte i mod 4;
\* so when the source is a payload P masked with the key, the sink gets P
\* back, and when the frame takes only the first bytes of the masked P, the
\* sink gets the same first bytes of P.
C28_Unmasking ==
    (/\ cdOut.step = "read"
     /\ cdIn.maskingKey # <<>>
     /\ Len(cdIn.stream) >= cdIn.payloadLength)
    => /\ cdOut.err = "nil"
       /\ Len(cdOut.data) = cdIn.payloadLength
       /\ \A i \in 0..(cdIn.payloadLength - 1) :
              cdOut.data[i + 1] = Xor8(cdIn.stream[i + 1],
                                       cdIn.maskingKey[(i % 4) + 1])
       /\ cdOut.data = Prefix(cdIn.plain, cdIn.payloadLength)

\* a frame of 5 bytes was read from the 6 bytes of "Hello!" masked with the
\* key of the test frame
C28_HelloUnmasked ==
    /\ cdOut.step = "read"
    /\ cdIn.maskingKey = PeerKey
    /\ cdIn.stream = <<127, 159, 77, 81, 88, 219>>
    /\ cdIn.payloadLength = 5
    /\ cdOut.data = <<72, 101, 108, 108, 111>>

\* C29: newFrameHeader refuses a negative payload length as malformed, and
\* parseFrameHeader refuses a 64-bit length whose first bit is set (a
\* negative int64); no header that either returns has a negative length.
C29_NegativeLengthRefused ==
    /\ (cdOut.step = "new" /\ cdIn.payloadLength < 0)
       => (cdOut.err = "errMalformedFrameHeader" /\ ~cdOut.hasFh)
    /\ (/\ cdOut.step = "parse"
        /\ Len(cdIn.stream) >= 10
        /\ WireLen7(cdIn.stream) = 127
        /\ cdIn.stream[3] >= 128)
       => (cdOut.err = "errMalformedFrameHeader" /\ ~cdOut.hasFh)
    /\ cdOut.hasFh => cdOut.fh.payloadLength >= 0

\* parseFrameHeader was given a final text frame whose 64-bit length is
\* eight bytes FF, and refused it
C29_AllOnesRefused ==
    /\ cdOut.step = "parse"
    /\ cdIn.stream = <<129, 127, 255, 255, 255, 255, 255, 255, 255, 255>>
    /\ cdOut.err = "errMalformedFrameHeader"
    /\ ~cdOut.hasFh

\* what the three tasks, a started call of Close, and an application that
\* takes what In and its readers give can do without a new message on Out
\* and without a new call of Close
TaskStep ==
    \/ RouterReturn
    \/ NextFrame
    \/ NextFrameEOF
    \/ Drain
    \/ ProcessPong
    \/ ProcessPing
    \/ ProcessText
    \/ TextRead
    \/ TextEnd
    \/ ProcessContinuation
    \/ ContRead
    \/ ContEnd
    \/ RouterClose
    \/ ProcessConnectionClose
    \/ CloseReply
    \/ Fault
    \/ \E t \in Tasks : SendClose(t)
    \/ \E t \in Tasks : Closing(t)
    \/ \E t \in Tasks : ClosingWriter(t)
    \/ \E t \in Tasks : SendCloseFrame(t)
    \/ \E t \in Tasks : SendCloseChan(t)
    \/ \E t \in Tasks : SendCloseFlag(t)
    \/ \E t \in Tasks : Destroy(t)
    \/ \E t \in Tasks : DestroyConn(t)
    \/ SendLoop
    \/ WritePayload
    \/ SendMessageLoop
    \/ SendFragment
    \/ AppRecv
    \/ AppRead

\* C30: once the connection is CLOSED, the router, sendLoop and
\* sendMessageLoop all come to their end: in a CLOSED connection where none
\* of them can take a step any more, none of them is left waiting on
\* c.send, c.out or c.in.
C30_TasksEndAfterClosed ==
    (State = CLOSED /\ panic = "nil" /\ ~ENABLED TaskStep)
    => \A t \in {"reader", "writer", "frag"} : pc[t] = "done"

\* The flags of Conn that the next step of task t writes, and those it
\* reads, by the place t is at.  The fragmenter reads c.State when it has
\* got a message from c.out; the router reads c.closeRecieved at the head
\* of its loop and c.closeSent when it has a frame.
FlagWrites(t) ==
    CASE pc[t] \in {"closing", "processConnectionClose"} -> {"State"}
      [] pc[t] = "routerClose" -> {"closeRecieved"}
      [] pc[t] = "sendCloseFlag" -> {"closeSent"}
      [] pc[t] = "destroyConn" -> {"State", "Cleanly"}
      [] OTHER -> {}

FlagReads(t) ==
    CASE pc[t] = "router" ->
             IF closeRecieved THEN {"closeRecieved"}
                              ELSE {"closeRecieved", "closeSent"}
      [] pc[t] \in {"sendClose", "closeReply"} -> {"closeSent"}
      [] pc[t] = "destroy" -> {"closeRecieved", "closeSent"}
      [] pc[t] = "sendMessageLoop" /\ outQ # <<>> -> {"State"}
      [] OTHER -> {}

\* task t is in sendClose, between its test of c.closeSent and
\* c.closeSent = true
InSendClose(t) ==
    \/ pc[t] \in {"sendCloseFrame", "sendCloseChan", "sendCloseFlag"}
    \/ /\ pc[t] \in {"closing", "closingWriter"}
       /\ stack[t] # <<>>
       /\ Head(stack[t]) = "sendCloseFrame"

\* C31: no two of the router, sendLoop, sendMessageLoop and the
\* application's Close are ever about to access the same flag State,
\* closeSent, closeRecieved or Cleanly with one of them writing it, and no
\* two are inside sendClose's test-and-set of closeSent together.
C31_FlagsNotRaced ==
    panic = "nil"
    => \A t1, t2 \in Tasks :
           t1 # t2
           => /\ FlagWrites(t1) \cap (FlagWrites(t2) \cup FlagReads(t2)) = {}
              /\ ~(InSendClose(t1) /\ InSendClose(t2))

\* C32: c.currWriter is changed only by steps of the router goroutine: no
\* step of the application's Close and no step of sendLoop changes it.
C32_CurrWriterOfReaderOnly ==
    [][currWriter' # currWriter
       => (pc'["app"] = pc["app"] /\ pc'["writer"] = pc["writer"])]_vars

\* C33: when sendLoop waits for the next frame of c.send, every byte of the
\* frames it has handled, headers and payloads, has been flushed to the
\* socket (no write has failed): nothing is left in the buffer of c.rw,
\* also after a frame without payload.
C33_FlushedBeforeNextFrame ==
    (pc["writer"] = "sendLoop" /\ ~werr) => wbuf = <<>>

\* the data frames made of the message sendMessageLoop has in hand
FramesOfMsg == SelectSeq(DataFrames, LAMBDA f : f.payload.bytes[1] = fmsg.id)

\* C34: for a message of Out whose reader ends with io.EOF, every data
\* frame carries at most max (128) bytes and declares the number of bytes
\* it carries, the frames carry the bytes of the message one after the
\* other from its first byte, and once the message is done they carry all
\* its bytes: also for a message of no bytes and one of exactly max bytes.
C34_FragmentsCarryMessage ==
    (fmsg.id # 0 /\ ~fmsg.fails)
    => /\ \A k \in 1..Len(FramesOfMsg) :
              LET b == FramesOfMsg[k].payload.bytes
              IN  /\ b[3] <= max
                  /\ FramesOfMsg[k].header.payloadLength = b[3]
                  /\ b[2] = IF k = 1 THEN 0
                            ELSE FramesOfMsg[k - 1].payload.bytes[2]
                                     + FramesOfMsg[k - 1].payload.bytes[3]
       /\ (pc["frag"] # "sendFragment")
          => /\ FramesOfMsg # <<>>
             /\ LET b == FramesOfMsg[Len(FramesOfMsg)].payload.bytes
                IN  b[2] + b[3] = fmsg.len

\* a message of exactly max bytes went out as a frame of max bytes and a
\* last frame without payload
C34_ExactMultipleSent ==
    /\ fmsg.len = max
    /\ pc["frag"] = "sendMessageLoop"
    /\ Len(FramesOfMsg) = 2
    /\ FramesOfMsg[1].header.payloadLength = max
    /\ ~FramesOfMsg[1].header.fin
    /\ FramesOfMsg[2].header.payloadLength = 0
    /\ FramesOfMsg[2].header.fin

\* a step of the router goroutine on a pong frame: nextFrame has parsed
\* its header, or its payload is read and thrown away
PongStep ==
    \/ /\ pc["reader"] = "router"
       /\ pc'["reader"] \in {"processPong", "drain"}
       /\ rf'.header.opCode = opCodePong
    \/ /\ pc["reader"] \in {"processPong", "drain"}
       /\ pc'["reader"] # pc["reader"]
       /\ rf.header.opCode = opCodePong

\* C35: the steps that receive a pong frame leave State, closeSent,
\* closeRecieved, Cleanly, currWriter, c.in and c.send as they are.
C35_PongChangesNothing ==
    [][PongStep => UNCHANGED <<State, closeSent, closeRecieved, Cleanly,
                               currWriter, inQ, inClosed, sendQ, sendClosed>>]_vars

\* a pong with one byte of payload was received on an open connection and
\* the router is back at the head of its loop
C35_PongReceived ==
    /\ Len(wireLog) = 1
    /\ Parsed(wireLog[1], opCodePong)
    /\ wireLog[1].frame.payloadLength = 1
    /\ pc["reader"] = "router"
    /\ rerr = "nil"
    /\ State = OPEN
    /\ sendLog = <<>>

C37_DataFramesUnrestricted ==
    (/\ cdOut.step \in {"new", "newEarlier"}
     /\ cdIn.opCode \in {opCodeContinuation, opCodeText, opCodeBinary}
     /\ cdIn.payloadLength >= 0
     /\ Len(cdIn.maskingKey) \in {0, 4})
    => /\ cdOut.err = "nil"
       /\ cdOut.hasFh
       /\ cdOut.fh.fin = cdIn.fin
       /\ cdOut.fh.payloadLength = cdIn.payloadLength

\* the close frames put on c.send
CloseFramesSent ==
    SelectSeq(sendLog, LAMBDA f : f.header.opCode = opCodeConnectionClose)

\* C38: at most one close frame is ever put on c.send and c.send is never
\* closed a second time, however Close of the application and the router's
\* answer to a close frame of the peer interleave.
C38_OneCloseFrame ==
    /\ Len(CloseFramesSent) <= 1
    /\ panic # "close of closed channel c.send"

\* the application's Close and the router answering the peer's close frame
\* were in sendClose together, both past the test of closeSent
C38_BothInSendClose ==
    /\ closeRecieved
    /\ InSendClose("reader")
    /\ InSendClose("app")
    /\ Len(CloseFramesSent) = 1

\* C39: State moves only forward along OPEN, CLOSING, CLOSED: no step
\* takes a connection that is CLOSED back to CLOSING or OPEN, or one that
\* is CLOSING back to OPEN.
C39_StateOnlyForward == [][State' >= State]_vars

\* C40: every reader given to c.in is ended by the connection, with io.EOF
\* or an error, once the connection has left OPEN: when no task can take a
\* step any more and the application has read all it was given, no reader
\* is left open.
C40_ReadersEnded ==
    (State # OPEN /\ panic = "nil" /\ ~ENABLED TaskStep)
    => \A p \in 1..Len(pipes) : pipes[p].status # "open"

====
